---- MODULE Spec2Model ----
(***************************************************************************)
(* Model of the codecov-action base-result retrieval and the pipeline      *)
(* around it: ArtifactManager (artifact naming, upload, download with      *)
(* candidate-name fallback) and processTestResults / processCoverage.      *)
(*                                                                         *)
(* Strings that the code inspects character by character (branch, job,     *)
(* name, flag) are sequences of one-character strings; the names built     *)
(* from them are strings.  An absent optional argument or environment      *)
(* variable is the empty sequence: the code tests them for truthiness, so  *)
(* undefined and "" behave alike.                                          *)
(***************************************************************************)
EXTENDS Integers, Sequences, FiniteSets, TLC

VARIABLES
  caller,            \* "direct" (manager call), "pipeline" (process*Results) or "run"
  kind,              \* "test" | "coverage": which pair of functions runs
  currentBranch,     \* branch the current results are uploaded for
  baseBranch,        \* first argument of downloadBase*Results
  flags,             \* flags parameter (coverage only), sequence of flags
  name,              \* name parameter as the function's signature binds it
  baseSha,           \* the base commit SHA the caller supplied, <<>> if none
  githubJob,         \* process.env.GITHUB_JOB
  shaRuns,           \* platform: successful runs listed for head_sha = baseSha
  branchRuns,        \* platform: successful runs listed for branch = baseBranch
  platformArtifacts, \* platform: the artifacts of all runs
  pc,                \* position in the caller / in the manager function
  artifactNamesToTry,\* candidate names of the running retrieval
  workflowRuns,      \* run listing the retrieval iterates over
  runIdx,            \* index of the run being scanned
  found,             \* the artifact the retrieval selected, or NoArtifact
  baseResults,       \* value returned by downloadBase*Results, or Null
  runListCalls,      \* parameters of every listWorkflowRunsForRepo call
  artifactListCalls, \* run_id of every listWorkflowRunArtifacts call
  downloadCalls,     \* artifact_id of every downloadArtifact call
  uploadCalls,       \* [name, payload] of every uploadArtifact call
  failure,           \* retrieval step that failed, "none" if none
  uploadFailed,      \* TRUE iff the artifact client's upload threw
  thrown,            \* TRUE iff a manager function let an exception escape
  warnings,          \* number of core.warning calls
  aggregatedResults, \* pipeline: the current summary, or Null
  outputs,           \* pipeline: core.setOutput values
  setFailed,         \* pipeline: core.setFailed was called
  filesFound,        \* pipeline: number of files findFiles returned
  parseOutcomes,     \* pipeline: per valid file, "ok" or "throws" of parseFile
  allResults,        \* pipeline: the valid files whose parse succeeded
  parseIdx,          \* pipeline: number of valid files the parse loop is past
  runPc,             \* run(): position in the function
  token,             \* run(): TRUE iff the token input is non-empty
  enableTests,       \* run(): enable-tests input
  enableCoverage,    \* run(): enable-coverage input
  postPrComment,     \* run(): post-pr-comment input
  isPullRequest,     \* run(): githubClient.isPullRequest()
  aggregatedTestResults,     \* run(): value of processTestResults, or Null
  aggregatedCoverageResults, \* run(): value of processCoverage, or Null
  jobSummaryCalls,   \* run(): arguments of every writeJobSummary call
  commentCalls,      \* run(): number of postOrUpdateComment calls
  actionFailed,      \* run(): its catch block called core.setFailed
  covPc,             \* coverage: which function is applied next
  covBaseDocs,       \* coverage: parsed documents of the base run
  covResults,        \* coverage: parsed documents of the current run
  covBase,           \* coverage: aggregateResults of the base run, or Null
  covCurrent,        \* coverage: aggregateResults of this run, or Null
  covComparison,     \* coverage: compareResults(base, current), or Null
  covExchanged,      \* coverage: compareResults(current, base), or Null
  xmlDocs,           \* parser: the documents of the report files, in order
  xmlResults,        \* parser: per parsed document, its result or its error
  xmlSummary,        \* parser: aggregateResults of the successes, or Null
  xmlPc,             \* parser: position in the parse loop and after
  hookDeps,          \* hook: per effect, its owner, repo and branch
  hookRuns,          \* hook: what getWorkflowRuns resolves to, per effect
  hookMounted,       \* hook: the component is mounted
  hookEffects,       \* hook: number of times the effect has run
  cancelled,         \* hook: per effect, its cancelled flag
  fetchPc,           \* hook: per effect, the await its fetch is suspended at
  runsToProcess,     \* hook: per effect, filteredRuns.slice(0, 20)
  fetchIdx,          \* hook: per effect, index of the run being processed
  processedRunIds,   \* hook: per effect, the set of run ids seen
  dataPoints,        \* hook: per effect, the points collected so far
  dataPoint,         \* hook: per effect, the point being built, or Null
  artifactRequests,  \* hook: per effect, run id of every getRunArtifacts call
  finished,          \* hook: the effects whose fetch has ended, in order
  data,              \* hook: React state data
  loading,           \* hook: React state loading
  error              \* hook: React state error: Null for null, or the
                     \* message as [message |-> string]

vars == <<caller, kind, currentBranch, baseBranch, flags, name, baseSha,
          githubJob, shaRuns, branchRuns, platformArtifacts, pc,
          artifactNamesToTry, workflowRuns, runIdx, found, baseResults,
          runListCalls, artifactListCalls, downloadCalls, uploadCalls,
          failure, uploadFailed, thrown, warnings, aggregatedResults, outputs,
          setFailed, filesFound, parseOutcomes, allResults, parseIdx,
          runPc, token, enableTests, enableCoverage, postPrComment,
          isPullRequest, aggregatedTestResults, aggregatedCoverageResults,
          jobSummaryCalls, commentCalls, actionFailed,
          covPc, covBaseDocs, covResults, covBase, covCurrent,
          covComparison, covExchanged,
          xmlDocs, xmlResults, xmlSummary, xmlPc,
          hookDeps, hookRuns, hookMounted, hookEffects, cancelled, fetchPc,
          runsToProcess, fetchIdx, processedRunIds, dataPoints, dataPoint,
          artifactRequests, finished, data, loading, error>>

parseVars == <<filesFound, parseOutcomes, allResults, parseIdx>>

\* the variables of the manager and of the pipeline
vars_manager ==
  <<caller, kind, currentBranch, baseBranch, flags, name, baseSha,
    githubJob, shaRuns, branchRuns, platformArtifacts, pc,
    artifactNamesToTry, workflowRuns, runIdx, found, baseResults,
    runListCalls, artifactListCalls, downloadCalls, uploadCalls,
    failure, uploadFailed, thrown, warnings, aggregatedResults, outputs,
    setFailed, filesFound, parseOutcomes, allResults, parseIdx>>

runInputVars == <<token, enableTests, enableCoverage, postPrComment,
                  isPullRequest>>

runVars == <<runPc, runInputVars, aggregatedTestResults,
             aggregatedCoverageResults, jobSummaryCalls, commentCalls,
             actionFailed>>

\* the variables of the other specifications, which the manager and the
\* pipeline leave alone
covVars == <<covPc, covBaseDocs, covResults, covBase, covCurrent,
             covComparison, covExchanged>>

xmlVars == <<xmlDocs, xmlResults, xmlSummary, xmlPc>>

hookVars == <<hookDeps, hookRuns, hookMounted, hookEffects, cancelled, fetchPc,
              runsToProcess, fetchIdx, processedRunIds, dataPoints, dataPoint,
              artifactRequests, finished, data, loading, error>>

otherVars == <<runVars, covVars, xmlVars, hookVars>>

inputVars == <<caller, kind, currentBranch, baseBranch, flags, name, baseSha,
               githubJob, shaRuns, branchRuns, platformArtifacts>>

-----------------------------------------------------------------------------
(* Bounds *)

\* Largest number of runs a run listing returns.
MaxRuns == 2
\* Largest number of artifacts stored on the platform over all runs.
MaxArtifacts == 2
\* Largest number of report files a pipeline run finds.
MaxFiles == 2

(* Program constants *)

PerPage == 10

\* null, as returned by downloadBase*Results and processTestResults
Null == [null |-> TRUE]
\* undefined, as returned by Array.prototype.find
NoArtifact == [id |-> 0]
\* a summary's comparison field while it is not set
NoComparison == [absent |-> TRUE]

-----------------------------------------------------------------------------
(* Artifact naming *)

Digit == {"0","1","2","3","4","5","6","7","8","9"}
\* the characters /[^a-zA-Z0-9-_]/ leaves alone
SafeChars ==
  {"a","b","c","d","e","f","g","h","i","j","k","l","m",
   "n","o","p","q","r","s","t","u","v","w","x","y","z"}
    \cup {"A","B","C","D","E","F","G","H","I","J","K","L","M",
          "N","O","P","Q","R","S","T","U","V","W","X","Y","Z"}
    \cup Digit \cup {"-", "_"}

RECURSIVE sanitizeBranchName(_)
sanitizeBranchName(branchName) ==
  IF branchName = <<>> THEN ""
  ELSE (IF Head(branchName) \in SafeChars THEN Head(branchName) ELSE "-")
         \o sanitizeBranchName(Tail(branchName))

\* flags.map(sanitizeBranchName).join("-")
RECURSIVE flagSuffix(_)
flagSuffix(fs) ==
  IF Len(fs) = 1 THEN sanitizeBranchName(fs[1])
  ELSE sanitizeBranchName(Head(fs)) \o "-" \o flagSuffix(Tail(fs))

nameAndFlagSuffix(fs, nm) ==
  (IF nm # <<>> THEN "-" \o sanitizeBranchName(nm) ELSE "")
    \o (IF Len(fs) > 0 THEN "-" \o flagSuffix(fs) ELSE "")

getArtifactName(branchName, type, fs, nm) ==
  LET sanitized == sanitizeBranchName(branchName)
      jobId == IF githubJob # <<>> THEN "-" \o sanitizeBranchName(githubJob)
               ELSE ""
  IN  "codecov-" \o type \o "-results-" \o sanitized \o jobId
        \o nameAndFlagSuffix(fs, nm)

getLegacyArtifactName(branchName, type, fs, nm) ==
  LET sanitized == sanitizeBranchName(branchName)
  IN  "codecov-" \o type \o "-results-" \o sanitized
        \o nameAndFlagSuffix(fs, nm)

\* [...new Set(list)]: first occurrences, in order
RECURSIVE Dedupe(_)
Dedupe(list) ==
  IF list = <<>> THEN <<>>
  ELSE LET front == Dedupe(SubSeq(list, 1, Len(list) - 1))
           last == list[Len(list)]
       IN  IF \E i \in 1..Len(front) : front[i] = last THEN front
           ELSE Append(front, last)

\* the legacy names tried before the current ones
CandidateNamesLegacyFirst(branch, type, fs, nm) ==
  << getLegacyArtifactName(branch, type, fs, nm),
     getLegacyArtifactName(branch, type, <<>>, <<>>),
     getArtifactName(branch, type, fs, nm),
     getArtifactName(branch, type, <<>>, <<>>) >>

\* The four candidates in order of preference, before deduplication.
CandidateNames(branch, type, fs, nm) ==
  << getArtifactName(branch, type, fs, nm),
     getArtifactName(branch, type, <<>>, <<>>),
     getLegacyArtifactName(branch, type, fs, nm),
     getLegacyArtifactName(branch, type, <<>>, <<>>) >>

BuildArtifactNamesToTry(branch, type, fs, nm) ==
  Dedupe(CandidateNames(branch, type, fs, nm))

-----------------------------------------------------------------------------
(* The CI platform, as the manager sees it through octokit *)

Min(a, b) == IF a < b THEN a ELSE b

\* listWorkflowRunsForRepo: the successful runs matching the filter, most
\* recent first, at most per_page of them.
listWorkflowRunsForRepo(params) ==
  LET all == IF "head_sha" \in DOMAIN params THEN shaRuns ELSE branchRuns
  IN  SubSeq(all, 1, Min(Len(all), params.per_page))

\* the elements of a set of artifacts as a sequence, by ascending id
RECURSIVE SortById(_)
SortById(S) ==
  IF S = {} THEN <<>>
  ELSE LET first == CHOOSE a \in S : \A b \in S : a.id <= b.id
       IN  <<first>> \o SortById(S \ {first})

\* listWorkflowRunArtifacts({run_id}).data.artifacts
listWorkflowRunArtifacts(run_id) ==
  SortById({a \in platformArtifacts : a.run = run_id})

\* The summary stored in an artifact's archive (written by an earlier run).
StoredSummary(artifact) == [total |-> artifact.id]

-----------------------------------------------------------------------------
(* Retrieval: downloadBaseResults / downloadBaseCoverageResults *)

\* flags argument as each function passes it to the naming helpers
NamingFlags == IF kind = "test" THEN <<>> ELSE flags

\* the page size left out of the listing, so that the platform's applies
RunListParamsDefaultPage ==
  [branch |-> baseBranch, status |-> "success", per_page |-> 30]

\* the listing without the restriction to successful runs
RunListParamsAnyStatus ==
  [branch |-> baseBranch, status |-> "completed", per_page |-> PerPage]

\* parameters of the run listing the retrieval issues
RunListParams ==
  [branch |-> baseBranch, status |-> "success", per_page |-> PerPage]

\* the find without the expiry test
FindArtifactIgnoringExpiry(artifacts, nameToTry) ==
  IF \E i \in 1..Len(artifacts) : artifacts[i].name = nameToTry
  THEN LET i == CHOOSE i \in 1..Len(artifacts) :
                  /\ artifacts[i].name = nameToTry
                  /\ \A j \in 1..(i - 1) : artifacts[j].name # nameToTry
       IN  artifacts[i]
  ELSE NoArtifact

\* artifacts.find((a) => a.name === nameToTry && !a.expired)
FindArtifact(artifacts, nameToTry) ==
  IF \E i \in 1..Len(artifacts) :
       artifacts[i].name = nameToTry /\ ~artifacts[i].expired
  THEN LET i == CHOOSE i \in 1..Len(artifacts) :
                  /\ artifacts[i].name = nameToTry /\ ~artifacts[i].expired
                  /\ \A j \in 1..(i - 1) :
                       ~(artifacts[j].name = nameToTry /\ ~artifacts[j].expired)
       IN  artifacts[i]
  ELSE NoArtifact

\* only the first candidate name tried
SelectArtifactFirstNameOnly(artifacts, names) ==
  IF names = <<>> THEN NoArtifact ELSE FindArtifact(artifacts, Head(names))

\* for (const nameToTry of artifactNamesToTry): the first name with a match
RECURSIVE SelectArtifact(_, _)
SelectArtifact(artifacts, names) ==
  IF names = <<>> THEN NoArtifact
  ELSE IF FindArtifact(artifacts, Head(names)) # NoArtifact
       THEN FindArtifact(artifacts, Head(names))
       ELSE SelectArtifact(artifacts, Tail(names))

\* where control goes when downloadBase*Results returns
AfterDownload == IF caller = "direct" THEN "returned" ELSE "compare"

\* return value
ReturnBase(value) ==
  /\ baseResults' = value
  /\ pc' = AfterDownload
  /\ UNCHANGED <<thrown, setFailed>>

\* An exception leaving a manager function; in the pipeline it leaves the
\* process function too and reaches the catch of run().
Escape ==
  /\ thrown' = TRUE
  /\ setFailed' = (caller = "pipeline")
  /\ pc' = "failed"

\* catch (error) { core.warning(...); return null; }
CatchDownloadRethrows ==
  /\ warnings' = warnings + 1
  /\ Escape
  /\ UNCHANGED baseResults

CatchDownload ==
  /\ warnings' = warnings + 1
  /\ ReturnBase(Null)

\* Entry of the function up to the handling of the run listing.
ListRuns ==
  /\ pc = "listRuns"
  /\ artifactNamesToTry' =
       BuildArtifactNamesToTry(baseBranch, kind, NamingFlags, name)
  /\ runListCalls' = Append(runListCalls, RunListParams)
  /\ \E ok \in BOOLEAN :
       IF ~ok
       THEN /\ failure' = "listRuns"
            /\ CatchDownload
            /\ UNCHANGED <<workflowRuns, runIdx>>
       ELSE /\ workflowRuns' = listWorkflowRunsForRepo(RunListParams)
            /\ UNCHANGED <<failure, warnings>>
            /\ IF Len(workflowRuns') = 0
               THEN ReturnBase(Null) /\ UNCHANGED runIdx
               ELSE /\ runIdx' = 1
                    /\ pc' = "scanRun"
                    /\ UNCHANGED <<baseResults, thrown, setFailed>>
  /\ UNCHANGED <<inputVars, otherVars, parseVars, found, artifactListCalls, downloadCalls,
                 uploadCalls, uploadFailed, aggregatedResults, outputs>>

\* listWorkflowRunArtifacts throws: the function's only try block ends
ScanFailedContinues ==
  /\ failure' = "listArtifacts"
  /\ warnings' = warnings + 1
  /\ IF runIdx < Len(workflowRuns)
     THEN /\ runIdx' = runIdx + 1
          /\ UNCHANGED <<pc, baseResults, thrown, setFailed>>
     ELSE ReturnBase(Null) /\ UNCHANGED runIdx
  /\ UNCHANGED found

ScanFailed ==
  /\ failure' = "listArtifacts"
  /\ CatchDownload
  /\ UNCHANGED <<runIdx, found>>

\* the loops exchanged: each candidate name tried on every remaining run
\* before the next name
ScanRunNameMajor ==
  /\ pc = "scanRun"
  /\ artifactListCalls' = Append(artifactListCalls, workflowRuns[runIdx])
  /\ \E ok \in BOOLEAN :
       IF ~ok
       THEN ScanFailed
       ELSE LET hits == { h \in (1..Len(artifactNamesToTry))
                                  \X (runIdx..Len(workflowRuns)) :
                            FindArtifact(
                              listWorkflowRunArtifacts(workflowRuns[h[2]]),
                              artifactNamesToTry[h[1]]) # NoArtifact }
                best == CHOOSE h \in hits : \A g \in hits :
                          h[1] < g[1] \/ (h[1] = g[1] /\ h[2] <= g[2])
                artifact == IF hits = {} THEN NoArtifact
                            ELSE FindArtifact(
                                   listWorkflowRunArtifacts(workflowRuns[best[2]]),
                                   artifactNamesToTry[best[1]])
            IN  /\ UNCHANGED <<failure, warnings>>
                /\ IF artifact # NoArtifact
                   THEN /\ found' = artifact
                        /\ pc' = "download"
                        /\ UNCHANGED <<runIdx, baseResults, thrown, setFailed>>
                   ELSE IF runIdx < Len(workflowRuns)
                   THEN /\ runIdx' = runIdx + 1
                        /\ UNCHANGED <<pc, found, baseResults, thrown,
                                       setFailed>>
                   ELSE ReturnBase(Null) /\ UNCHANGED <<runIdx, found>>
  /\ UNCHANGED <<inputVars, otherVars, parseVars, artifactNamesToTry, workflowRuns, runListCalls,
                 downloadCalls, uploadCalls, uploadFailed, aggregatedResults,
                 outputs>>

\* One iteration of the loop over the runs: list the run's artifacts and
\* try every candidate name on them.
ScanRun ==
  /\ pc = "scanRun"
  /\ artifactListCalls' = Append(artifactListCalls, workflowRuns[runIdx])
  /\ \E ok \in BOOLEAN :
       IF ~ok
       THEN ScanFailed
       ELSE LET artifacts == listWorkflowRunArtifacts(workflowRuns[runIdx])
                artifact == SelectArtifact(artifacts, artifactNamesToTry)
            IN  /\ UNCHANGED <<failure, warnings>>
                /\ IF artifact # NoArtifact
                   THEN /\ found' = artifact
                        /\ pc' = "download"
                        /\ UNCHANGED <<runIdx, baseResults, thrown, setFailed>>
                   ELSE IF runIdx < Len(workflowRuns)
                   THEN /\ runIdx' = runIdx + 1
                        /\ UNCHANGED <<pc, found, baseResults, thrown,
                                       setFailed>>
                   ELSE ReturnBase(Null) /\ UNCHANGED <<runIdx, found>>
  /\ UNCHANGED <<inputVars, otherVars, parseVars, artifactNamesToTry, workflowRuns, runListCalls,
                 downloadCalls, uploadCalls, uploadFailed, aggregatedResults,
                 outputs>>

\* downloadArtifact of the selected artifact and writing the zip.
Download ==
  /\ pc = "download"
  /\ downloadCalls' = Append(downloadCalls, found.id)
  /\ \E ok \in BOOLEAN :
       IF ~ok
       THEN failure' = "download" /\ CatchDownload
       ELSE /\ pc' = "extract"
            /\ UNCHANGED <<failure, baseResults, warnings, thrown, setFailed>>
  /\ UNCHANGED <<inputVars, otherVars, parseVars, artifactNamesToTry, workflowRuns, runIdx, found,
                 runListCalls, artifactListCalls, uploadCalls, uploadFailed,
                 aggregatedResults, outputs>>

\* an unusable archive sending the retrieval on to the next run
ExtractTriesNextRun ==
  /\ pc = "extract"
  /\ \E archive \in {"ok", "nojson", "extract"} :
       /\ failure' = IF archive = "ok" THEN failure ELSE archive
       /\ warnings' = warnings + (IF archive = "ok" THEN 0 ELSE 1)
       /\ IF archive # "ok" /\ runIdx < Len(workflowRuns)
          THEN /\ runIdx' = runIdx + 1
               /\ pc' = "scanRun"
               /\ UNCHANGED <<baseResults, thrown, setFailed>>
          ELSE /\ ReturnBase(IF archive = "ok" THEN StoredSummary(found)
                             ELSE Null)
               /\ UNCHANGED runIdx
  /\ UNCHANGED <<inputVars, otherVars, parseVars, artifactNamesToTry, workflowRuns, found,
                 runListCalls, artifactListCalls, downloadCalls, uploadCalls,
                 uploadFailed, aggregatedResults, outputs>>

\* extractAndReadResults / extractAndReadCoverageResults, then the return.
\* The archive is readable and holds the results file ("ok"), lacks the
\* results file ("nojson"), or cannot be extracted or parsed ("extract");
\* the last two warn and yield null.
Extract ==
  /\ pc = "extract"
  /\ \E archive \in {"ok", "nojson", "extract"} :
       /\ failure' = IF archive = "ok" THEN failure ELSE archive
       /\ warnings' = warnings + (IF archive = "ok" THEN 0 ELSE 1)
       /\ ReturnBase(IF archive = "ok" THEN StoredSummary(found) ELSE Null)
  /\ UNCHANGED <<inputVars, otherVars, parseVars, artifactNamesToTry, workflowRuns, runIdx, found,
                 runListCalls, artifactListCalls, downloadCalls, uploadCalls,
                 uploadFailed, aggregatedResults, outputs>>

-----------------------------------------------------------------------------
(* Upload: uploadResults / uploadCoverageResults *)

\* const { comparison: _comparison, ...resultsToSave } = results
\* the summary serialized whole
ResultsToSaveWhole(results) == results

\* const { comparison: _comparison, ...resultsToSave } = results
ResultsToSave(results) ==
  [f \in DOMAIN results \ {"comparison"} |-> results[f]]

\* where control goes when upload*Results returns
AfterUpload == IF caller = "direct" THEN "returned" ELSE "listRuns"

\* The end of the function, either after uploadArtifact resolved (ok) or
\* through the catch block, which warns and swallows the error.
UploadEndsRethrowing(ok) ==
  /\ uploadFailed' = ~ok
  /\ warnings' = warnings + (IF ok THEN 0 ELSE 1)
  /\ IF ok THEN pc' = AfterUpload /\ UNCHANGED <<thrown, setFailed>>
     ELSE Escape

UploadEnds(ok) ==
  /\ uploadFailed' = ~ok
  /\ warnings' = warnings + (IF ok THEN 0 ELSE 1)
  /\ pc' = AfterUpload
  /\ UNCHANGED <<thrown, setFailed>>

\* the upload keyed without the name qualifier
UploadArtifactNameUnqualified ==
  getArtifactName(currentBranch, kind, NamingFlags, <<>>)

\* the upload keyed by the name without the job id
UploadArtifactNameLegacy ==
  getLegacyArtifactName(currentBranch, kind, NamingFlags, name)

\* const artifactName = this.getArtifactName(branchName, type, flags, name)
UploadArtifactName == getArtifactName(currentBranch, kind, NamingFlags, name)

\* The whole function: the client's uploadArtifact either resolves or throws.
Upload ==
  /\ pc = "upload"
  /\ uploadCalls' =
       Append(uploadCalls,
              [name |-> UploadArtifactName,
               payload |-> ResultsToSave(aggregatedResults)])
  /\ \E ok \in BOOLEAN : UploadEnds(ok)
  /\ UNCHANGED <<inputVars, otherVars, parseVars, artifactNamesToTry, workflowRuns, runIdx, found,
                 baseResults, runListCalls, artifactListCalls, downloadCalls,
                 failure, aggregatedResults, outputs>>

-----------------------------------------------------------------------------
(* Pipeline: processTestResults / processCoverage of index.ts *)

\* core.setOutput for every key of kv
SetOutputs(out, kv) ==
  [k \in DOMAIN out \cup DOMAIN kv |-> IF k \in DOMAIN kv THEN kv[k] ELSE out[k]]

\* outputs written when no report file matches the pattern
NoFilesOutputs ==
  IF kind = "test"
  THEN [k \in {"total-tests", "passed-tests", "failed-tests", "test-pass-rate",
               "tests-added", "tests-removed", "tests-fixed", "tests-broken"}
          |-> "0"]
  ELSE [k \in {"line-coverage", "branch-coverage", "coverage-change"} |-> "0"]

\* comparison outputs written when no base results are available
NoBaseOutputs ==
  IF kind = "test"
  THEN [k \in {"tests-added", "tests-removed", "tests-fixed", "tests-broken"}
          |-> "0"]
  ELSE [k \in {"coverage-change", "branch-coverage-change", "coverage-improved"}
          |-> IF k = "coverage-improved" THEN "false" ELSE "0"]

\* comparison outputs written from a comparison; each value stands for the
\* stringified field of the comparison it is read from
ComparisonOutputs ==
  IF kind = "test"
  THEN [k \in {"tests-added", "tests-removed", "tests-fixed", "tests-broken"}
          |-> "comparison:" \o k]
  ELSE [k \in {"coverage-change", "branch-coverage-change", "coverage-improved"}
          |-> "comparison:" \o k]

\* outputs written from the current summary, each standing for the
\* stringified field of the summary it is read from
SummaryOutputs ==
  IF kind = "test"
  THEN [k \in {"total-tests", "passed-tests", "failed-tests", "test-pass-rate"}
          |-> "summary:" \o k]
  ELSE [k \in {"line-coverage", "branch-coverage"} |-> "summary:" \o k]

\* JUnitParser.aggregateResults / CoverageParser.aggregateResults of the
\* successfully parsed documents, reduced to the number of documents
Aggregate(nParsed) == [total |-> nParsed, comparison |-> NoComparison]

\* *Comparator.compareResults(base, current), reduced to the base it used
Compare(base, current) == [base |-> base]

\* the parse loop leaving at the first file whose parse throws
RECURSIVE ParseAllStopAtFirstError(_, _)
ParseAllStopAtFirstError(outcomes, i) ==
  IF i > Len(outcomes) \/ outcomes[i] = "throws" THEN <<>>
  ELSE <<i>> \o ParseAllStopAtFirstError(outcomes, i + 1)

\* for (const file of validFiles) { try { allResults.push(parseFile(file)) }
\* catch { core.error(...) } }: the results of files i.. in order, a file
\* whose parse throws being skipped
RECURSIVE ParseAll(_, _)
ParseAll(outcomes, i) ==
  IF i > Len(outcomes) THEN <<>>
  ELSE (IF outcomes[i] = "ok" THEN <<i>> ELSE <<>>)
         \o ParseAll(outcomes, i + 1)

\* one turn of the parse loop: the i-th valid file is pushed if it parsed,
\* and skipped after core.error if its parse threw
ParseOne(results, outcomes, i) ==
  IF outcomes[i] = "ok" THEN Append(results, i) ELSE results

\* if (allResults.length === 0) throw new Error(...), which reaches run()'s
\* catch; otherwise the aggregate is built and the upload is next
AfterParse(parsed) ==
  IF Len(parsed) = 0
  THEN /\ setFailed' = (caller = "pipeline")
       /\ pc' = "failed"
       /\ UNCHANGED aggregatedResults
  ELSE /\ aggregatedResults' = Aggregate(Len(parsed))
       /\ pc' = "upload"
       /\ UNCHANGED setFailed

\* From the entry of the function over await findFiles to its next await:
\* no file found warns twice, sets the zero outputs and returns null; no
\* valid file throws. processTestResults then parses every valid file
\* (parseFile is synchronous there) and aggregates; processCoverage awaits
\* parseFile, so its loop runs one file per step.
ProcessFiles ==
  /\ pc = "process"
  /\ \E nFiles \in 0..MaxFiles : \E nValid \in 0..nFiles :
     \E outcomes \in [1..nValid -> {"ok", "throws"}] :
       /\ filesFound' = nFiles
       /\ parseOutcomes' = outcomes
       /\ IF nFiles = 0
          THEN /\ warnings' = warnings + 2
               /\ outputs' = SetOutputs(outputs, NoFilesOutputs)
               /\ pc' = "returned"
               /\ UNCHANGED <<aggregatedResults, setFailed, allResults,
                              parseIdx>>
          ELSE IF nValid = 0
          THEN /\ setFailed' = (caller = "pipeline")
               /\ pc' = "failed"
               /\ UNCHANGED <<aggregatedResults, outputs, allResults,
                              parseIdx, warnings>>
          ELSE IF kind = "test"
          THEN /\ allResults' = ParseAll(outcomes, 1)
               /\ parseIdx' = nValid
               /\ AfterParse(allResults')
               /\ UNCHANGED <<outputs, warnings>>
          ELSE /\ allResults' = <<>>
               /\ parseIdx' = 0
               /\ pc' = "parse"
               /\ UNCHANGED <<aggregatedResults, outputs, setFailed, warnings>>
  /\ UNCHANGED <<inputVars, otherVars, artifactNamesToTry, workflowRuns, runIdx, found,
                 baseResults, runListCalls, artifactListCalls, downloadCalls,
                 uploadCalls, failure, uploadFailed, thrown>>

\* processCoverage: await parser.parseFile(file) settles for the next valid
\* file; after the last one the loop ends
ParseCoverageFile ==
  /\ pc = "parse"
  /\ parseIdx' = parseIdx + 1
  /\ allResults' = ParseOne(allResults, parseOutcomes, parseIdx + 1)
  /\ IF parseIdx' = Len(parseOutcomes)
     THEN AfterParse(allResults')
     ELSE UNCHANGED <<pc, aggregatedResults, setFailed>>
  /\ UNCHANGED <<inputVars, otherVars, filesFound, parseOutcomes,
                 artifactNamesToTry, workflowRuns, runIdx, found,
                 baseResults, runListCalls, artifactListCalls, downloadCalls,
                 uploadCalls, failure, uploadFailed, thrown, warnings, outputs>>

\* From the return of downloadBase*Results to the return of the function.
CompareAndReport ==
  /\ pc = "compare"
  /\ IF baseResults # Null
     THEN /\ aggregatedResults' =
               [aggregatedResults EXCEPT
                  !.comparison = Compare(baseResults, aggregatedResults)]
          /\ outputs' = SetOutputs(SetOutputs(outputs, ComparisonOutputs),
                                   SummaryOutputs)
     ELSE /\ outputs' = SetOutputs(SetOutputs(outputs, NoBaseOutputs),
                                   SummaryOutputs)
          /\ UNCHANGED aggregatedResults
  /\ pc' = "returned"
  /\ UNCHANGED <<inputVars, otherVars, parseVars, artifactNamesToTry, workflowRuns, runIdx, found,
                 baseResults, runListCalls, artifactListCalls, downloadCalls,
                 uploadCalls, failure, uploadFailed, thrown, warnings,
                 setFailed>>

-----------------------------------------------------------------------------
(* Inputs *)

Main == <<"m", "a", "i", "n">>
Feat == <<"f", "e", "a", "t", "/", "x">>
Sha == <<"a", "b", "c", "1", "2", "3">>
Variant == <<"n", "o", "d", "e", ".", "2", "0">>
Unit == <<"u", "n", "i", "t">>
Job == <<"b", "u", "i", "l", "d">>

\* Arguments of the direct calls of downloadBase*Results.  A base SHA is
\* passed the way the repository's tests pass it: as the argument after the
\* branch (test results) or after the flags (coverage), which the function's
\* signature binds to name.
DownloadCalls ==
  { [kind |-> "test", baseBranch |-> Main, flags |-> <<>>,
     name |-> <<>>, baseSha |-> <<>>],
    [kind |-> "test", baseBranch |-> Main, flags |-> <<>>,
     name |-> Sha, baseSha |-> Sha],
    [kind |-> "test", baseBranch |-> Feat, flags |-> <<>>,
     name |-> Variant, baseSha |-> <<>>],
    [kind |-> "coverage", baseBranch |-> Main, flags |-> <<Unit>>,
     name |-> Sha, baseSha |-> Sha],
    [kind |-> "coverage", baseBranch |-> Main, flags |-> <<>>,
     name |-> <<>>, baseSha |-> <<>>],
    [kind |-> "coverage", baseBranch |-> Feat, flags |-> <<Unit, <<"e", "2", "e">> >>,
     name |-> Variant, baseSha |-> <<>>] }

\* Arguments of the direct calls of upload*Results.
UploadCalls ==
  { [kind |-> c.kind, currentBranch |-> c.baseBranch, flags |-> c.flags,
     name |-> c.name] : c \in {d \in DownloadCalls : d.baseSha = <<>>} }

\* the sets of at most k elements of S
RECURSIVE SubsetsUpTo(_, _)
SubsetsUpTo(S, k) ==
  IF k = 0 THEN {{}}
  ELSE LET smaller == SubsetsUpTo(S, k - 1)
       IN  smaller \cup {T \cup {x} : T \in smaller, x \in S}

\* <<1, ..., k>> for k <= n: a run listing, most recent run first
RunListings(n) == {[i \in 1..k |-> i] : k \in 0..n}

\* The artifacts a run can hold: one stored by an earlier run of the action
\* under either naming scheme, with or without qualifiers, expired or not;
\* or one some other action or step uploaded.
PlatformArtifactChoices(branch, type, fs, nm) ==
  LET pool == Dedupe(<< getArtifactName(branch, type, fs, nm),
                        getArtifactName(branch, type, <<>>, <<>>),
                        getLegacyArtifactName(branch, type, fs, nm),
                        getLegacyArtifactName(branch, type, <<>>, <<>>) >>)
  IN  { [id |-> 100 * r + 10 * i + (IF e THEN 1 ELSE 0), run |-> r,
         name |-> pool[i], expired |-> e] :
          r \in 1..MaxRuns, i \in 1..Len(pool), e \in BOOLEAN }
      \cup { [id |-> 100 * r + 90, run |-> r, name |-> "coverage-html-report",
              expired |-> FALSE] : r \in 1..MaxRuns }

InitControl ==
  /\ artifactNamesToTry = <<>>
  /\ workflowRuns = <<>>
  /\ runIdx = 0
  /\ found = NoArtifact
  /\ baseResults = Null
  /\ runListCalls = <<>>
  /\ artifactListCalls = <<>>
  /\ downloadCalls = <<>>
  /\ uploadCalls = <<>>
  /\ failure = "none"
  /\ uploadFailed = FALSE
  /\ thrown = FALSE
  /\ warnings = 0
  /\ outputs = [k \in {} |-> ""]
  /\ setFailed = FALSE
  /\ filesFound = 0
  /\ parseOutcomes = <<>>
  /\ allResults = <<>>
  /\ parseIdx = 0

InitPlatform ==
  /\ branchRuns \in RunListings(MaxRuns)
  /\ shaRuns \in (IF baseSha = <<>> THEN {<<>>} ELSE RunListings(1))
  /\ platformArtifacts \in
       SubsetsUpTo(PlatformArtifactChoices(baseBranch, kind, NamingFlags, name),
                   MaxArtifacts)

\* a test or a caller invoking downloadBase*Results
InitDirectDownload ==
  /\ caller = "direct"
  /\ githubJob \in {<<>>, Job}
  /\ \E c \in DownloadCalls :
       /\ kind = c.kind
       /\ baseBranch = c.baseBranch
       /\ flags = c.flags
       /\ name = c.name
       /\ baseSha = c.baseSha
  /\ currentBranch = Feat
  /\ InitPlatform
  /\ aggregatedResults = Null
  /\ pc = "listRuns"

\* a caller invoking upload*Results, with a summary with or without a
\* comparison attached
InitDirectUpload ==
  /\ caller = "direct"
  /\ githubJob \in {<<>>, Job}
  /\ \E c \in UploadCalls :
       /\ kind = c.kind
       /\ currentBranch = c.currentBranch
       /\ flags = c.flags
       /\ name = c.name
  /\ baseBranch = Main
  /\ baseSha = <<>>
  /\ branchRuns = <<>>
  /\ shaRuns = <<>>
  /\ platformArtifacts = {}
  /\ aggregatedResults \in
       { Aggregate(1),
         [Aggregate(1) EXCEPT !.comparison = Compare([total |-> 2], Aggregate(1))] }
  /\ pc = "upload"

\* processTestResults / processCoverage as run() calls them, on a branch
\* of its own or on the base branch itself
InitPipeline ==
  /\ caller = "pipeline"
  /\ githubJob \in {<<>>, Job}
  /\ kind \in {"test", "coverage"}
  /\ currentBranch \in {Feat, Main}
  /\ baseBranch = Main
  /\ flags = <<>>
  /\ name = <<>>
  /\ baseSha = <<>>
  /\ InitPlatform
  /\ aggregatedResults = Null
  /\ pc = "process"

\* run() is not under way
IdleRun ==
  /\ runPc = "idle"
  /\ token = TRUE
  /\ enableTests = TRUE
  /\ enableCoverage = TRUE
  /\ postPrComment = FALSE
  /\ isPullRequest = FALSE
  /\ aggregatedTestResults = Null
  /\ aggregatedCoverageResults = Null
  /\ jobSummaryCalls = <<>>
  /\ commentCalls = 0
  /\ actionFailed = FALSE

\* no coverage document is being aggregated or compared
IdleCoverage ==
  /\ covPc = "idle"
  /\ covBaseDocs = <<>>
  /\ covResults = <<>>
  /\ covBase = Null
  /\ covCurrent = Null
  /\ covComparison = Null
  /\ covExchanged = Null

\* no report file is being parsed
IdleParser ==
  /\ xmlDocs = <<>>
  /\ xmlResults = <<>>
  /\ xmlSummary = Null
  /\ xmlPc = "idle"

\* the effects a mounted useArtifacts hook runs in the model
Fetches == 1..2

\* the dashboard is not open
IdleHook ==
  /\ hookDeps = [k \in Fetches |-> <<>>]
  /\ hookRuns = [k \in Fetches |-> <<>>]
  /\ hookMounted = FALSE
  /\ hookEffects = 0
  /\ cancelled = [k \in Fetches |-> FALSE]
  /\ fetchPc = [k \in Fetches |-> "none"]
  /\ runsToProcess = [k \in Fetches |-> <<>>]
  /\ fetchIdx = [k \in Fetches |-> 0]
  /\ processedRunIds = [k \in Fetches |-> {}]
  /\ dataPoints = [k \in Fetches |-> <<>>]
  /\ dataPoint = [k \in Fetches |-> Null]
  /\ artifactRequests = [k \in Fetches |-> <<>>]
  /\ finished = <<>>
  /\ data = <<>>
  /\ loading = TRUE
  /\ error = Null

Init ==
  /\ InitControl
  /\ InitDirectDownload \/ InitDirectUpload \/ InitPipeline
  /\ IdleRun
  /\ IdleCoverage
  /\ IdleParser
  /\ IdleHook

Next ==
  \/ ProcessFiles
  \/ ParseCoverageFile
  \/ Upload
  \/ ListRuns
  \/ ScanRun
  \/ Download
  \/ Extract
  \/ CompareAndReport

Spec == Init /\ [][Next]_vars

\* ---------------------------------------------------------------------
\* run() of index.ts, with processTestResults and processCoverage reduced
\* to their three ways of ending: a summary, null (no file matched the
\* pattern) or an exception (no valid file, no file parsed).

\* the manager and the pipeline are not under way
IdleManager ==
  /\ InitControl
  /\ caller = "run"
  /\ kind = "test"
  /\ githubJob = <<>>
  /\ currentBranch = Feat
  /\ baseBranch = Main
  /\ flags = <<>>
  /\ name = <<>>
  /\ baseSha = <<>>
  /\ branchRuns = <<>>
  /\ shaRuns = <<>>
  /\ platformArtifacts = {}
  /\ aggregatedResults = Null
  /\ pc = "idle"

\* the locals of one call of process*Results
callVars == <<artifactNamesToTry, workflowRuns, runIdx, found, baseResults,
              failure, aggregatedResults, parseVars>>

\* what the calls of process*Results leave behind
effectVars == <<runListCalls, artifactListCalls, downloadCalls, uploadCalls,
                uploadFailed, thrown, warnings, outputs>>

\* what run() itself leaves alone in every step but a call or a return
runFrame == <<caller, currentBranch, baseBranch, flags, name, baseSha,
              githubJob, shaRuns, branchRuns, platformArtifacts, effectVars,
              covVars, xmlVars, hookVars, runInputVars>>

\* catch (error) { core.setFailed(...) }
RunCatch ==
  /\ actionFailed' = TRUE
  /\ setFailed' = TRUE
  /\ runPc' = "done"

\* inputs, the token check, the clients
RunStart ==
  /\ runPc = "start"
  /\ IF ~token THEN RunCatch
     ELSE runPc' = "tests" /\ UNCHANGED <<actionFailed, setFailed>>
  /\ UNCHANGED <<runFrame, kind, pc, callVars, aggregatedTestResults,
                 aggregatedCoverageResults, jobSummaryCalls, commentCalls>>

\* the locals of a call of process*Results that has ended are gone
CallEnds ==
  /\ pc' = "idle"
  /\ artifactNamesToTry' = <<>>
  /\ workflowRuns' = <<>>
  /\ runIdx' = 0
  /\ found' = NoArtifact
  /\ baseResults' = Null
  /\ failure' = "none"
  /\ aggregatedResults' = Null
  /\ filesFound' = 0
  /\ parseOutcomes' = <<>>
  /\ allResults' = <<>>
  /\ parseIdx' = 0

\* if (enableTests) ... processTestResults(...) is called
RunProcessTestResults ==
  /\ runPc = "tests"
  /\ IF enableTests
     THEN /\ kind' = "test"
          /\ pc' = "process"
          /\ runPc' = "inTests"
     ELSE /\ runPc' = "coverage"
          /\ UNCHANGED <<kind, pc>>
  /\ UNCHANGED <<runFrame, callVars, setFailed, actionFailed,
                 aggregatedTestResults, aggregatedCoverageResults,
                 jobSummaryCalls, commentCalls>>

\* aggregatedTestResults = await processTestResults(...): the call has
\* returned its summary or null, or has thrown
RunTestResultsSettled ==
  /\ runPc = "inTests"
  /\ pc \in {"returned", "failed"}
  /\ IF pc = "failed"
     THEN RunCatch /\ UNCHANGED aggregatedTestResults
     ELSE /\ aggregatedTestResults' = aggregatedResults
          /\ runPc' = "coverage"
          /\ UNCHANGED <<actionFailed, setFailed>>
  /\ CallEnds
  /\ UNCHANGED <<runFrame, kind, aggregatedCoverageResults, jobSummaryCalls,
                 commentCalls>>

\* if (enableCoverage) ... processCoverage(...) is called
RunProcessCoverage ==
  /\ runPc = "coverage"
  /\ IF enableCoverage
     THEN /\ kind' = "coverage"
          /\ pc' = "process"
          /\ runPc' = "inCoverage"
     ELSE /\ runPc' = "summary"
          /\ UNCHANGED <<kind, pc>>
  /\ UNCHANGED <<runFrame, callVars, setFailed, actionFailed,
                 aggregatedTestResults, aggregatedCoverageResults,
                 jobSummaryCalls, commentCalls>>

\* aggregatedCoverageResults = await processCoverage(...)
RunCoverageSettled ==
  /\ runPc = "inCoverage"
  /\ pc \in {"returned", "failed"}
  /\ IF pc = "failed"
     THEN RunCatch /\ UNCHANGED aggregatedCoverageResults
     ELSE /\ aggregatedCoverageResults' = aggregatedResults
          /\ runPc' = "summary"
          /\ UNCHANGED <<actionFailed, setFailed>>
  /\ CallEnds
  /\ UNCHANGED <<runFrame, kind, aggregatedTestResults, jobSummaryCalls,
                 commentCalls>>

\* await writeJobSummary(aggregatedTestResults, aggregatedCoverageResults),
\* which resolves or throws
RunWriteJobSummary ==
  /\ runPc = "summary"
  /\ jobSummaryCalls' =
       Append(jobSummaryCalls, [tests |-> aggregatedTestResults,
                                coverage |-> aggregatedCoverageResults])
  /\ \E ok \in BOOLEAN :
       IF ok THEN runPc' = "comment" /\ UNCHANGED <<actionFailed, setFailed>>
       ELSE RunCatch
  /\ UNCHANGED <<runFrame, kind, pc, callVars, aggregatedTestResults,
                 aggregatedCoverageResults, commentCalls>>

\* if (postPrComment && githubClient.isPullRequest())
\*   await githubClient.postOrUpdateComment(commentBody)
RunPostComment ==
  /\ runPc = "comment"
  /\ IF postPrComment /\ isPullRequest
     THEN /\ commentCalls' = commentCalls + 1
          /\ \E ok \in BOOLEAN :
               IF ok THEN runPc' = "done" /\ UNCHANGED <<actionFailed, setFailed>>
               ELSE RunCatch
     ELSE /\ runPc' = "done"
          /\ UNCHANGED <<commentCalls, actionFailed, setFailed>>
  /\ UNCHANGED <<runFrame, kind, pc, callVars, aggregatedTestResults,
                 aggregatedCoverageResults, jobSummaryCalls>>

\* the base branch has no successful run, or one run that holds an
\* unexpired summary of either kind
RunPlatforms ==
  { [runs |-> <<>>, artifacts |-> {}],
    [runs |-> <<1>>,
     artifacts |->
       { [id |-> 110, run |-> 1, expired |-> FALSE,
          name |-> getArtifactName(Main, "test", <<>>, <<>>)],
         [id |-> 120, run |-> 1, expired |-> FALSE,
          name |-> getArtifactName(Main, "coverage", <<>>, <<>>)] }] }

\* run() is entered: nothing has been called yet
InitRun ==
  /\ InitControl
  /\ caller = "run"
  /\ kind = "test"
  /\ githubJob = <<>>
  /\ currentBranch = Feat
  /\ baseBranch = Main
  /\ flags = <<>>
  /\ name = <<>>
  /\ baseSha = <<>>
  /\ shaRuns = <<>>
  /\ \E platform \in RunPlatforms :
       /\ branchRuns = platform.runs
       /\ platformArtifacts = platform.artifacts
  /\ aggregatedResults = Null
  /\ pc = "idle"
  /\ IdleCoverage
  /\ IdleParser
  /\ IdleHook
  /\ runPc = "start"
  /\ token \in BOOLEAN
  /\ enableTests \in BOOLEAN
  /\ enableCoverage \in BOOLEAN
  /\ postPrComment \in BOOLEAN
  /\ isPullRequest \in BOOLEAN
  /\ aggregatedTestResults = Null
  /\ aggregatedCoverageResults = Null
  /\ jobSummaryCalls = <<>>
  /\ commentCalls = 0
  /\ actionFailed = FALSE

NextRun ==
  \/ RunStart
  \/ RunProcessTestResults
  \/ RunTestResultsSettled
  \/ RunProcessCoverage
  \/ RunCoverageSettled
  \/ RunWriteJobSummary
  \/ RunPostComment
  \/ ProcessFiles
  \/ ParseCoverageFile
  \/ Upload
  \/ ListRuns
  \/ ScanRun
  \/ Download
  \/ Extract
  \/ CompareAndReport

SpecRun == InitRun /\ [][NextRun]_vars

\* ---------------------------------------------------------------------
\* CoverageParser (parsers/coverage-parser.ts) and CoverageComparator
\* (utils/coverage-comparison.ts). A rate is held as an integer number of
\* hundredths of a percent: 6667 stands for 66.67. The text of an XML
\* attribute is a sequence of one-character strings.

\* the decimal digits, DecimalDigits[d + 1] being the digit d
DecimalDigits == <<"0", "1", "2", "3", "4", "5", "6", "7", "8", "9">>

\* the decimal numeral of a natural number, as an XML attribute holds it
RECURSIVE Numeral(_)
Numeral(n) ==
  IF n < 10 THEN <<DecimalDigits[n + 1]>>
  ELSE Numeral(n \div 10) \o <<DecimalDigits[(n % 10) + 1]>>

\* the attributes of a Clover <metrics> element
Attrs(s, cs, c, cc, m, cm) ==
  [statements |-> Numeral(s), coveredstatements |-> Numeral(cs),
   conditionals |-> Numeral(c), coveredconditionals |-> Numeral(cc),
   methods |-> Numeral(m), coveredmethods |-> Numeral(cm)]

\* what Number.parseInt yields for a string with no leading digits
NaN == [nan |-> TRUE]

\* Number.isNaN(x), for x a number of the model (an integer) or NaN
IsNaN(x) == ToString(x) = ToString(NaN)

\* the number an operand of + or - stands for: null, which JSON.parse reads
\* where NaN was written, stands for 0
ToNumber(x) == IF ToString(x) = ToString(Null) THEN 0 ELSE x

\* a + b and a - b, NaN when an operand is
Plus(a, b) ==
  IF IsNaN(a) \/ IsNaN(b) THEN NaN ELSE ToNumber(a) + ToNumber(b)

Minus(a, b) ==
  IF IsNaN(a) \/ IsNaN(b) THEN NaN ELSE ToNumber(a) - ToNumber(b)

\* x > 0 and x === 0: a comparison with NaN is false, so x !== 0 is true
Positive(x) == ~IsNaN(x) /\ x > 0

IsZero(x) == ~IsNaN(x) /\ x = 0

\* The empty string '': what the XML reader gives for an element without
\* attributes, children and text, and for an empty attribute. It is written
\* <<>> (or "") and is falsy.
Empty(value) == ToString(value) \in {"<<>>", "<< >>", "\"\""}

\* element.attr !== undefined (a property of '' is undefined)
Defined(element, attr) == ~Empty(element) /\ attr \in DOMAIN element

\* element.attr is truthy, for an attribute text or a child element
Has(element, attr) == Defined(element, attr) /\ ~Empty(element[attr])

\* the value of the digits of str from position i on, up to the first
\* character that is not a digit
RECURSIVE ParseDigits(_, _, _)
ParseDigits(str, i, acc) ==
  IF i > Len(str) \/ str[i] \notin Digit THEN acc
  ELSE LET digitValue == (CHOOSE d \in 1..10 : DecimalDigits[d] = str[i]) - 1
       IN  ParseDigits(str, i + 1, 10 * acc + digitValue)

\* Number.parseInt(str, 10): leading white space is skipped, then come an
\* optional sign and digits; what follows the digits is ignored. The white
\* space is the WhiteSpace and LineTerminator of ECMAScript: TAB, LF, VT, FF,
\* CR, SP, NBSP, U+1680, U+2000 to U+200A, U+2028, U+2029, U+202F, U+205F,
\* U+3000 and U+FEFF. One of these that has no escape is written as the
\* character itself, where a string of this module can hold it (VT, NBSP,
\* U+1680 and U+FEFF), or as the name of its code point, "U+2028".
parseInt(str) ==
  LET WhiteSpace ==
        {" ", "\t", "\n", "\r", "\f", "", " ", " ", "﻿",
         "U+000B", "U+00A0", "U+1680", "U+FEFF",
         "U+2000", "U+2001", "U+2002", "U+2003", "U+2004", "U+2005",
         "U+2006", "U+2007", "U+2008", "U+2009", "U+200A",
         "U+2028", "U+2029", "U+202F", "U+205F", "U+3000"}
      begin == IF \A i \in 1..Len(str) : str[i] \in WhiteSpace
               THEN Len(str) + 1
               ELSE CHOOSE i \in 1..Len(str) :
                      /\ str[i] \notin WhiteSpace
                      /\ \A j \in 1..(i - 1) : str[j] \in WhiteSpace
      signed == begin <= Len(str) /\ str[begin] \in {"-", "+"}
      start == IF signed THEN begin + 1 ELSE begin
  IN  IF start > Len(str) \/ str[start] \notin Digit THEN NaN
      ELSE IF signed /\ str[begin] = "-" THEN 0 - ParseDigits(str, start, 0)
      ELSE ParseDigits(str, start, 0)

\* Number.parseInt(element.attr, 10): an absent attribute reads as
\* "undefined", which has no digits
parseIntOf(element, attr) ==
  IF Defined(element, attr) THEN parseInt(element[attr]) ELSE NaN

\* attrs.x || "0": an absent or empty attribute reads as "0"
AttrOrZero(attrs, attr) ==
  IF Has(attrs, attr) THEN attrs[attr] ELSE <<"0">>

\* Number.parseFloat(((covered / total) * 100).toFixed(2)) is computed in
\* IEEE 754 double arithmetic (round to nearest, ties to even). A natural
\* number too wide for the model's integers is a binary numeral: the
\* sequence of its bits, the most significant first.

\* the number of significand bits of a double
SignificandBits == 53

\* the numeral of n in width bits, for n below 2^31: the bits above the
\* 31st are 0
Binary(n, width) ==
  [i \in 1..width |->
     IF width - i > 30 THEN 0 ELSE (n \div 2^(width - i)) % 2]

\* a binary numeral without its leading zeros
Stripped(bits) ==
  IF \A i \in DOMAIN bits : bits[i] = 0 THEN <<>>
  ELSE LET first == CHOOSE i \in DOMAIN bits :
                      bits[i] = 1 /\ \A j \in 1..(i - 1) : bits[j] = 0
       IN  SubSeq(bits, first, Len(bits))

\* x >= y for binary numerals
GeBinary(x, y) ==
  LET sx == Stripped(x)
      sy == Stripped(y)
  IN  IF Len(sx) # Len(sy) THEN Len(sx) > Len(sy)
      ELSE \A i \in 1..Len(sx) :
             (\A j \in 1..(i - 1) : sx[j] = sy[j]) => sx[i] >= sy[i]

\* The numeral bits (without leading zeros), followed by something non-zero
\* iff sticky, rounded to 53 bits: the value is mant * 2^scale in units of
\* the last bit of bits.
RoundBinary(bits, sticky) ==
  LET \* the numeral kept plus one
      successor(kept) ==
        IF \A i \in DOMAIN kept : kept[i] = 1
        THEN <<1>> \o Binary(0, Len(kept))
        ELSE LET last == CHOOSE i \in DOMAIN kept :
                           kept[i] = 0 /\ \A j \in (i + 1)..Len(kept) : kept[j] = 1
             IN  [i \in DOMAIN kept |->
                    IF i < last THEN kept[i] ELSE IF i = last THEN 1 ELSE 0]
  IN  IF Len(bits) <= SignificandBits
      THEN [mant |-> bits \o Binary(0, SignificandBits - Len(bits)),
            scale |-> Len(bits) - SignificandBits]
      ELSE LET kept == SubSeq(bits, 1, SignificandBits)
               rest == sticky
                         \/ \E i \in (SignificandBits + 2)..Len(bits) :
                              bits[i] = 1
               up == bits[SignificandBits + 1] = 1
                       /\ (rest \/ kept[SignificandBits] = 1)
               rounded == IF up THEN successor(kept) ELSE kept
           IN  [mant |-> SubSeq(rounded, 1, SignificandBits),
                scale |-> Len(bits) - SignificandBits
                            + (Len(rounded) - SignificandBits)]

\* the value of a numeral of at most 15 bits
RECURSIVE BinaryValue(_)
BinaryValue(bits) ==
  IF bits = <<>> THEN 0
  ELSE 2 * BinaryValue(SubSeq(bits, 1, Len(bits) - 1)) + bits[Len(bits)]

\* The product of a numeral of at most 60 bits and a factor below 2^16, by
\* long multiplication on four limbs of 15 bits.
TimesSmall(bits, factor) ==
  LET padded == Binary(0, 60 - Len(bits)) \o bits
      limb(k) == BinaryValue(SubSeq(padded, 15 * k - 14, 15 * k))
      p4 == limb(4) * factor
      p3 == limb(3) * factor + p4 \div 32768
      p2 == limb(2) * factor + p3 \div 32768
      p1 == limb(1) * factor + p2 \div 32768
  IN  Stripped(Binary(p1 \div 32768, 16) \o Binary(p1 % 32768, 15)
                 \o Binary(p2 % 32768, 15) \o Binary(p3 % 32768, 15)
                 \o Binary(p4 % 32768, 15))

\* the remainder of a * 256^i divided by t
RECURSIVE Remainder(_, _, _)
Remainder(a, t, i) ==
  IF i = 0 THEN a % t ELSE (Remainder(a, t, i - 1) * 256) % t

\* Number.parseFloat(((covered / total) * 100).toFixed(2)) for total > 0, in
\* hundredths; toFixed rounds the magnitude and puts the sign in front.
\* toFixed takes the hundredth nearest to the double, the larger one when
\* both are as near. Unless the exact quotient lies half-way between two
\* hundredths, the double is nearer to the hundredth the exact quotient is
\* nearest to (its error is far below the 1 / (2 total) hundredths that
\* separate them); half-way, the double decides.
RoundedPercent(covered, total) ==
  LET \* The double a / total for a > 0 and total < 2^23: mant * 2^exp. The
      \* quotient is 31 bits before and 80 bits (10 digits to base 256)
      \* behind the binary point, cut to its first 54 significant bits and
      \* rounded.
      quotient(a) ==
        LET digit(i) == (Remainder(a, total, i - 1) * 256) \div total
            fraction == [j \in 1..80 |->
                           (digit((j - 1) \div 8 + 1)
                              \div 2^(7 - ((j - 1) % 8))) % 2]
            all == Binary(a \div total, 31) \o fraction
            first == CHOOSE i \in DOMAIN all :
                       all[i] = 1 /\ \A j \in 1..(i - 1) : all[j] = 0
            sticky == Remainder(a, total, 10) # 0
                        \/ \E i \in (first + SignificandBits + 1)..Len(all) :
                             all[i] = 1
            r == RoundBinary(SubSeq(all, first, first + SignificandBits),
                             sticky)
        IN  [mant |-> r.mant, exp |-> 31 - first - SignificandBits + r.scale]
      \* the double x * 100
      times100(x) ==
        LET r == RoundBinary(TimesSmall(x.mant, 100), FALSE)
        IN  [mant |-> r.mant, exp |-> x.exp + r.scale]
      \* x >= n / 200 for a double x and a natural number n
      atLeastOver200(x, n) ==
        IF x.exp >= 0
        THEN GeBinary(TimesSmall(x.mant, 200) \o Binary(0, x.exp),
                      Binary(n, 31))
        ELSE GeBinary(TimesSmall(x.mant, 200),
                      Binary(n, 31) \o Binary(0, -x.exp))
      \* toFixed(2) of (a / total) * 100 for a >= 0
      toFixed2(a) ==
        LET floor == (10000 * a) \div total
            halfway == (20000 * a) % total = 0
                         /\ ((20000 * a) \div total) % 2 = 1
        IN  IF ~halfway THEN (20000 * a + total) \div (2 * total)
            ELSE IF atLeastOver200(times100(quotient(a)), 2 * floor + 1)
            THEN floor + 1
            ELSE floor
  IN  IF IsNaN(covered) THEN NaN
      ELSE IF covered >= 0 THEN toFixed2(covered)
      ELSE -toFixed2(-covered)

\* the rates taken from the document where it states them
parseMetricsCopiesRate(metricsAttrs) ==
  LET statements == parseInt(AttrOrZero(metricsAttrs, "statements"))
      coveredStatements ==
        parseInt(AttrOrZero(metricsAttrs, "coveredstatements"))
      conditionals == parseInt(AttrOrZero(metricsAttrs, "conditionals"))
      coveredConditionals ==
        parseInt(AttrOrZero(metricsAttrs, "coveredconditionals"))
  IN  [statements |-> statements,
       coveredStatements |-> coveredStatements,
       conditionals |-> conditionals,
       coveredConditionals |-> coveredConditionals,
       methods |-> parseInt(AttrOrZero(metricsAttrs, "methods")),
       coveredMethods |-> parseInt(AttrOrZero(metricsAttrs, "coveredmethods")),
       elements |-> parseInt(AttrOrZero(metricsAttrs, "elements")),
       coveredElements |->
         parseInt(AttrOrZero(metricsAttrs, "coveredelements")),
       lineRate |->
         IF Has(metricsAttrs, "linerate")
         THEN 100 * ParseDigits(metricsAttrs.linerate, 1, 0)
         ELSE IF Positive(statements)
         THEN RoundedPercent(coveredStatements, statements)
         ELSE 0,
       branchRate |->
         IF Positive(conditionals)
         THEN RoundedPercent(coveredConditionals, conditionals)
         ELSE 0]

parseMetrics(metricsAttrs) ==
  LET statements == parseInt(AttrOrZero(metricsAttrs, "statements"))
      coveredStatements ==
        parseInt(AttrOrZero(metricsAttrs, "coveredstatements"))
      conditionals == parseInt(AttrOrZero(metricsAttrs, "conditionals"))
      coveredConditionals ==
        parseInt(AttrOrZero(metricsAttrs, "coveredconditionals"))
  IN  [statements |-> statements,
       coveredStatements |-> coveredStatements,
       conditionals |-> conditionals,
       coveredConditionals |-> coveredConditionals,
       methods |-> parseInt(AttrOrZero(metricsAttrs, "methods")),
       coveredMethods |-> parseInt(AttrOrZero(metricsAttrs, "coveredmethods")),
       elements |-> parseInt(AttrOrZero(metricsAttrs, "elements")),
       coveredElements |->
         parseInt(AttrOrZero(metricsAttrs, "coveredelements")),
       lineRate |->
         IF Positive(statements)
         THEN RoundedPercent(coveredStatements, statements)
         ELSE 0,
       branchRate |->
         IF Positive(conditionals)
         THEN RoundedPercent(coveredConditionals, conditionals)
         ELSE 0]

\* Array.isArray(x) ? x : x ? [x] : [] for the children of an element that
\* the XML reader (explicitArray: false) leaves out when there is none,
\* gives as one element when there is one and as an array otherwise; one
\* empty child is '', which is falsy
Children(element, child) ==
  IF ~Has(element, child) THEN <<>>
  ELSE IF "array" \in DOMAIN element[child] THEN element[child].array
  ELSE <<element[child]>>

\* an entry of lines: trueCount and falseCount are undefined, and left out
\* here, unless the line element has the attribute
LineCoverage(lineNumber, count, type, hasTrue, trueCount, hasFalse, falseCount) ==
  IF hasTrue /\ hasFalse
  THEN [lineNumber |-> lineNumber, count |-> count, type |-> type,
        trueCount |-> trueCount, falseCount |-> falseCount]
  ELSE IF hasTrue
  THEN [lineNumber |-> lineNumber, count |-> count, type |-> type,
        trueCount |-> trueCount]
  ELSE IF hasFalse
  THEN [lineNumber |-> lineNumber, count |-> count, type |-> type,
        falseCount |-> falseCount]
  ELSE [lineNumber |-> lineNumber, count |-> count, type |-> type]

parseLine(line) ==
  LineCoverage(parseIntOf(line, "num"), parseIntOf(line, "count"),
               IF Has(line, "type") THEN line.type ELSE "stmt",
               Defined(line, "truecount"), parseIntOf(line, "truecount"),
               Defined(line, "falsecount"), parseIntOf(line, "falsecount"))

parseFile_internal(fileElement) ==
  LET \* fileElement.name || ""
      TextOrEmpty(element, attr) ==
        IF Has(element, attr) THEN element[attr] ELSE ""
      metrics == parseMetrics(fileElement.metrics)
      fileLines == Children(fileElement, "line")
  IN  [name |-> TextOrEmpty(fileElement, "name"),
       path |-> TextOrEmpty(fileElement, "path"),
       statements |-> metrics.statements,
       coveredStatements |-> metrics.coveredStatements,
       conditionals |-> metrics.conditionals,
       coveredConditionals |-> metrics.coveredConditionals,
       methods |-> metrics.methods,
       coveredMethods |-> metrics.coveredMethods,
       lineRate |-> metrics.lineRate,
       branchRate |-> metrics.branchRate,
       lines |-> [i \in 1..Len(fileLines) |-> parseLine(fileLines[i])]]

\* an exception leaving parseXML
ParseError(message) == [error |-> message]

IsParseError(result) == "error" \in DOMAIN result

\* parseXML on the object the XML reader returns. For a blank document the
\* reader returns null, and reading result.coverage throws a TypeError. The
\* two explicit checks
\* throw an Error for an absent and for an empty element; parseMetrics
\* reading an attribute of an absent metrics element (of the project, or of
\* a file element, which has none when it is empty) throws a TypeError
parseXML(result) ==
  IF ToString(result) = ToString(Null) THEN ParseError("TypeError")
  ELSE IF ~Has(result, "coverage")
  THEN ParseError("Invalid Clover XML: missing coverage element")
  ELSE IF ~Has(result.coverage, "project")
  THEN ParseError("Invalid Clover XML: missing project element")
  ELSE LET project == result.coverage.project
           projectFiles == Children(project, "file")
       IN  IF ~Defined(project, "metrics")
              \/ \E i \in DOMAIN projectFiles :
                   ~Defined(projectFiles[i], "metrics")
           THEN ParseError("TypeError")
           ELSE [timestamp |-> parseInt(AttrOrZero(result.coverage, "generated")),
                 metrics |-> parseMetrics(project.metrics),
                 files |-> [i \in 1..Len(projectFiles) |->
                              parseFile_internal(projectFiles[i])]]

\* Map<string, FileCoverage>, as the sequence of its values in insertion
\* order of the keys
MapHas(map, path) == \E i \in DOMAIN map : map[i].path = path

MapGet(map, path) == map[CHOOSE i \in DOMAIN map : map[i].path = path]

\* for (const file of files) map.set(file.path, file)
RECURSIVE MapSetAll(_, _)
MapSetAll(map, files) ==
  LET \* map.set(file.path, file)
      MapSet(file) ==
        IF MapHas(map, file.path)
        THEN [i \in DOMAIN map |->
                IF map[i].path = file.path THEN file ELSE map[i]]
        ELSE Append(map, file)
  IN  IF files = <<>> THEN map
      ELSE MapSetAll(MapSet(Head(files)), Tail(files))

\* the sum over the documents of one counter of their project metrics
RECURSIVE Total(_, _)
Total(results, counter) ==
  IF results = <<>> THEN 0
  ELSE Plus(Total(SubSeq(results, 1, Len(results) - 1), counter),
            results[Len(results)].metrics[counter])

\* the files collected with one entry per path
RECURSIVE AllFilesDedup(_)
AllFilesDedup(results) ==
  IF results = <<>> THEN <<>>
  ELSE MapSetAll(AllFilesDedup(SubSeq(results, 1, Len(results) - 1)),
                 results[Len(results)].files)

\* allFiles.push(...result.files) for every result in turn
RECURSIVE AllFiles(_)
AllFiles(results) ==
  IF results = <<>> THEN <<>>
  ELSE AllFiles(SubSeq(results, 1, Len(results) - 1))
         \o results[Len(results)].files

\* the aggregation taking each rate as the mean of the documents' rates
aggregateResultsMeanOfRates(results) ==
  [totalStatements |-> Total(results, "statements"),
   coveredStatements |-> Total(results, "coveredStatements"),
   totalConditionals |-> Total(results, "conditionals"),
   coveredConditionals |-> Total(results, "coveredConditionals"),
   totalMethods |-> Total(results, "methods"),
   coveredMethods |-> Total(results, "coveredMethods"),
   lineRate |-> IF results = <<>> \/ IsNaN(Total(results, "lineRate"))
                THEN 0
                ELSE Total(results, "lineRate") \div Len(results),
   branchRate |-> IF results = <<>> \/ IsNaN(Total(results, "branchRate"))
                  THEN 0
                  ELSE Total(results, "branchRate") \div Len(results),
   files |-> AllFiles(results)]

aggregateResults(results) ==
  LET totalStatements == Total(results, "statements")
      coveredStatements == Total(results, "coveredStatements")
      totalConditionals == Total(results, "conditionals")
      coveredConditionals == Total(results, "coveredConditionals")
  IN  [totalStatements |-> totalStatements,
       coveredStatements |-> coveredStatements,
       totalConditionals |-> totalConditionals,
       coveredConditionals |-> coveredConditionals,
       totalMethods |-> Total(results, "methods"),
       coveredMethods |-> Total(results, "coveredMethods"),
       lineRate |-> IF Positive(totalStatements)
                    THEN RoundedPercent(coveredStatements, totalStatements)
                    ELSE 0,
       branchRate |-> IF Positive(totalConditionals)
                      THEN RoundedPercent(coveredConditionals,
                                          totalConditionals)
                      ELSE 0,
       files |-> AllFiles(results)]

\* The summary a later run reads back: uploadCoverageResults writes
\* JSON.stringify(resultsToSave) and extractAndReadCoverageResults returns
\* JSON.parse of the file. A number that is NaN is written as null, and a
\* property that is undefined is left out.
JsonRoundTrip(results) ==
  LET number(x) == IF IsNaN(x) THEN Null ELSE x
      lineEntry(line) ==
        LineCoverage(number(line.lineNumber), number(line.count), line.type,
                     "trueCount" \in DOMAIN line,
                     IF "trueCount" \in DOMAIN line
                     THEN number(line.trueCount) ELSE Null,
                     "falseCount" \in DOMAIN line,
                     IF "falseCount" \in DOMAIN line
                     THEN number(line.falseCount) ELSE Null)
      fileEntry(file) ==
        [name |-> file.name,
         path |-> file.path,
         statements |-> number(file.statements),
         coveredStatements |-> number(file.coveredStatements),
         conditionals |-> number(file.conditionals),
         coveredConditionals |-> number(file.coveredConditionals),
         methods |-> number(file.methods),
         coveredMethods |-> number(file.coveredMethods),
         lineRate |-> number(file.lineRate),
         branchRate |-> number(file.branchRate),
         lines |-> [i \in 1..Len(file.lines) |-> lineEntry(file.lines[i])]]
  IN  [totalStatements |-> number(results.totalStatements),
       coveredStatements |-> number(results.coveredStatements),
       totalConditionals |-> number(results.totalConditionals),
       coveredConditionals |-> number(results.coveredConditionals),
       totalMethods |-> number(results.totalMethods),
       coveredMethods |-> number(results.coveredMethods),
       lineRate |-> number(results.lineRate),
       branchRate |-> number(results.branchRate),
       files |-> [i \in 1..Len(results.files) |->
                    fileEntry(results.files[i])]]

\* the difference of two rates reported without its sign
RateDeltaMagnitude(current, base) ==
  IF Positive(Minus(base, current)) THEN Minus(base, current)
  ELSE Minus(current, base)

\* Number.parseFloat((current - base).toFixed(2)) for two rates of two
\* decimals: their difference is a whole number of hundredths, and the
\* double difference is nearest to it (NaN when a rate is NaN)
RateDelta(current, base) == Minus(current, base)

compareFiles(baseFile, currentFile) ==
  LET \* x?.length || 0 for the optional line lists of a file, which the
      \* parser never sets
      OptionalLength(file, list) ==
        IF list \in DOMAIN file THEN Len(file[list]) ELSE 0
  IN
  [name |-> currentFile.name,
   path |-> currentFile.path,
   baseLineRate |-> baseFile.lineRate,
   currentLineRate |-> currentFile.lineRate,
   baseBranchRate |-> baseFile.branchRate,
   currentBranchRate |-> currentFile.branchRate,
   deltaLineRate |-> RateDelta(currentFile.lineRate, baseFile.lineRate),
   deltaBranchRate |-> RateDelta(currentFile.branchRate, baseFile.branchRate),
   deltaStatements |-> Minus(currentFile.statements, baseFile.statements),
   deltaCoveredStatements |->
     Minus(currentFile.coveredStatements, baseFile.coveredStatements),
   deltaConditionals |->
     Minus(currentFile.conditionals, baseFile.conditionals),
   deltaCoveredConditionals |->
     Minus(currentFile.coveredConditionals, baseFile.coveredConditionals),
   missingLines |-> OptionalLength(currentFile, "missingLines"),
   partialLines |-> OptionalLength(currentFile, "partialLines")]

\* if (!baseFile) filesAdded.push(currentFile)
FilesAdded(baseFileMap, currentFileMap) ==
  SelectSeq(currentFileMap, LAMBDA f : ~MapHas(baseFileMap, f.path))

\* every file present in both, whatever its deltas
FilesChangedUnfiltered(baseFileMap, currentFileMap) ==
  LET both == SelectSeq(currentFileMap,
                        LAMBDA f : MapHas(baseFileMap, f.path))
  IN  [i \in 1..Len(both) |->
         compareFiles(MapGet(baseFileMap, both[i].path), both[i])]

\* else { comparison = compareFiles(baseFile, currentFile);
\*        if (deltaLineRate !== 0 || deltaBranchRate !== 0) push }
FilesChanged(baseFileMap, currentFileMap) ==
  LET changed(f) ==
        LET comparison == compareFiles(MapGet(baseFileMap, f.path), f)
        IN  ~IsZero(comparison.deltaLineRate)
              \/ ~IsZero(comparison.deltaBranchRate)
      both == SelectSeq(currentFileMap,
                        LAMBDA f : MapHas(baseFileMap, f.path) /\ changed(f))
  IN  [i \in 1..Len(both) |->
         compareFiles(MapGet(baseFileMap, both[i].path), both[i])]

\* if (!currentFileMap.has(path)) filesRemoved.push(baseFile)
FilesRemoved(baseFileMap, currentFileMap) ==
  SelectSeq(baseFileMap, LAMBDA f : ~MapHas(currentFileMap, f.path))

\* results.totalX || 0 for the optional counters of a summary: a counter
\* that is absent, null, NaN or 0 is falsy and reads as 0
OptionalCount(results, counter) ==
  IF counter \in DOMAIN results
       /\ ToString(results[counter]) \notin {ToString(Null), ToString(NaN)}
  THEN results[counter] ELSE 0

\* results.totalFiles || results.files.length
TotalFiles(results) ==
  LET totalFiles == OptionalCount(results, "totalFiles")
  IN  IF totalFiles # 0 THEN totalFiles ELSE Len(results.files)

\* a rise of either rate counted as an improvement
ImprovementEitherRate(deltaLineRate, deltaBranchRate) ==
  Positive(deltaLineRate) \/ Positive(deltaBranchRate)

Improvement(deltaLineRate, deltaBranchRate) ==
  Positive(deltaLineRate)
    \/ (IsZero(deltaLineRate) /\ Positive(deltaBranchRate))

\* CoverageComparator.compareResults(baseResults, currentResults) as
\* processCoverage calls it, without options: baseBranch, headCommit and
\* baseCommit of the returned record are undefined and are left out
compareResults(baseCoverage, currentCoverage) ==
  LET baseFileMap == MapSetAll(<<>>, baseCoverage.files)
      currentFileMap == MapSetAll(<<>>, currentCoverage.files)
      deltaLineRate == RateDelta(currentCoverage.lineRate, baseCoverage.lineRate)
      deltaBranchRate ==
        RateDelta(currentCoverage.branchRate, baseCoverage.branchRate)
  IN  [filesAdded |-> FilesAdded(baseFileMap, currentFileMap),
       filesRemoved |-> FilesRemoved(baseFileMap, currentFileMap),
       filesChanged |-> FilesChanged(baseFileMap, currentFileMap),
       deltaLineRate |-> deltaLineRate,
       deltaBranchRate |-> deltaBranchRate,
       deltaTotalStatements |->
         Minus(currentCoverage.totalStatements, baseCoverage.totalStatements),
       deltaCoveredStatements |->
         Minus(currentCoverage.coveredStatements,
               baseCoverage.coveredStatements),
       deltaTotalConditionals |->
         Minus(currentCoverage.totalConditionals,
               baseCoverage.totalConditionals),
       deltaCoveredConditionals |->
         Minus(currentCoverage.coveredConditionals,
               baseCoverage.coveredConditionals),
       deltaTotalMethods |->
         Minus(currentCoverage.totalMethods, baseCoverage.totalMethods),
       deltaCoveredMethods |->
         Minus(currentCoverage.coveredMethods, baseCoverage.coveredMethods),
       improvement |-> Improvement(deltaLineRate, deltaBranchRate),
       deltaFiles |-> TotalFiles(currentCoverage) - TotalFiles(baseCoverage),
       deltaLines |-> OptionalCount(currentCoverage, "totalLines")
                        - OptionalCount(baseCoverage, "totalLines"),
       deltaBranches |-> OptionalCount(currentCoverage, "totalBranches")
                           - OptionalCount(baseCoverage, "totalBranches"),
       deltaHits |-> OptionalCount(currentCoverage, "totalHits")
                       - OptionalCount(baseCoverage, "totalHits"),
       deltaMisses |-> OptionalCount(currentCoverage, "totalMisses")
                         - OptionalCount(baseCoverage, "totalMisses"),
       deltaPartials |-> OptionalCount(currentCoverage, "totalPartials")
                           - OptionalCount(baseCoverage, "totalPartials"),
       baseFiles |-> TotalFiles(baseCoverage),
       baseLines |-> OptionalCount(baseCoverage, "totalLines"),
       baseBranches |-> OptionalCount(baseCoverage, "totalBranches"),
       baseHits |-> OptionalCount(baseCoverage, "totalHits"),
       baseMisses |-> OptionalCount(baseCoverage, "totalMisses"),
       basePartials |-> OptionalCount(baseCoverage, "totalPartials"),
       currentFiles |-> TotalFiles(currentCoverage),
       currentLines |-> OptionalCount(currentCoverage, "totalLines"),
       currentBranches |-> OptionalCount(currentCoverage, "totalBranches"),
       currentHits |-> OptionalCount(currentCoverage, "totalHits"),
       currentMisses |-> OptionalCount(currentCoverage, "totalMisses"),
       currentPartials |-> OptionalCount(currentCoverage, "totalPartials")]

\* Inputs: Clover documents as the XML reader hands them to parseXML.
MaxDocs == 2

\* a <file> element with a path and a metrics child
FileElement(path, metricsAttrs) == [path |-> path, metrics |-> metricsAttrs]

\* counts that are no numerals: statements="abc", coveredconditionals="x"
AttrsNotNumeral ==
  [statements |-> <<"a", "b", "c">>, coveredstatements |-> Numeral(1),
   conditionals |-> Numeral(2), coveredconditionals |-> <<"x">>]

\* the object the XML reader returns for a Clover document with the given
\* project metrics and file elements
Clover(metricsAttrs, fileElements) ==
  LET withoutFiles == [metrics |-> metricsAttrs]
      withOneFile == [metrics |-> metricsAttrs, file |-> fileElements[1]]
      withFiles == [metrics |-> metricsAttrs,
                    file |-> [array |-> fileElements]]
  IN  [coverage |->
         [generated |-> Numeral(17),
          project |-> IF Len(fileElements) = 0 THEN withoutFiles
                      ELSE IF Len(fileElements) = 1 THEN withOneFile
                      ELSE withFiles]]

\* The reports of a run. src/a.ts is reported with three different
\* metrics and src/b.ts by two reports with the same ones; 23 of 160
\* statements and 41 of 160 conditionals are 14.375 and 25.625, which the
\* double arithmetic takes down to 14.37 and 25.62.
CloverReports ==
  << Clover(Attrs(0, 0, 0, 0, 0, 0), <<>>),
     Clover(Attrs(3, 2, 3, 1, 2, 1),
            <<FileElement("src/a.ts", Attrs(3, 2, 3, 1, 2, 1))>>),
     Clover(Attrs(4, 4, 5, 2, 3, 3),
            <<FileElement("src/a.ts", Attrs(3, 3, 3, 1, 2, 2)),
              FileElement("src/b.ts", Attrs(1, 1, 2, 1, 1, 1))>>),
     Clover(Attrs(8, 5, 6, 2, 3, 2),
            <<FileElement("src/a.ts", Attrs(6, 4, 6, 2, 2, 1)),
              FileElement("src/d.ts", Attrs(2, 1, 0, 0, 1, 1))>>),
     Clover(Attrs(4, 1, 2, 1, 2, 1),
            <<FileElement("src/b.ts", Attrs(1, 1, 2, 1, 1, 1)),
              FileElement("src/c.ts", Attrs(3, 0, 0, 0, 1, 0))>>),
     Clover(Attrs(160, 23, 160, 41, 2, 1),
            <<FileElement("src/g.ts", Attrs(160, 23, 160, 41, 2, 1))>>),
     Clover(AttrsNotNumeral, <<FileElement("src/h.ts", AttrsNotNumeral)>>) >>

\* what parser.parseFile returns for each of the reports
ParsedReports == [i \in DOMAIN CloverReports |-> parseXML(CloverReports[i])]

\* for (const file of validFiles) allResults.push(await
\* parser.parseFile(file)), files being the reports the files hold
ParsedResults(files) == [i \in DOMAIN files |-> ParsedReports[files[i]]]

SeqsUpTo(S, n) == UNION { [1..k -> S] : k \in 0..n }

\* The base run and the current run have parsed their reports: each has at
\* least one result, since processCoverage throws when allResults is empty
\* and a run that threw has uploaded no summary to compare with.
InitCoverage ==
  /\ IdleManager
  /\ IdleRun
  /\ IdleParser
  /\ IdleHook
  /\ covPc = "base"
  /\ \E files \in SeqsUpTo(DOMAIN CloverReports, MaxDocs) \ {<<>>} :
       covBaseDocs = ParsedResults(files)
  /\ \E files \in SeqsUpTo(DOMAIN CloverReports, MaxDocs) \ {<<>>} :
       covResults = ParsedResults(files)
  /\ covBase = Null
  /\ covCurrent = Null
  /\ covComparison = Null
  /\ covExchanged = Null

\* the base run aggregates its results and uploads the summary as JSON; what
\* a later run downloads and parses is its baseCoverage
AggregateBase ==
  /\ covPc = "base"
  /\ covBase' = JsonRoundTrip(aggregateResults(covBaseDocs))
  /\ covPc' = "current"
  /\ UNCHANGED <<vars_manager, runVars, xmlVars, hookVars, covBaseDocs, covResults, covCurrent,
                 covComparison, covExchanged>>

\* const aggregatedResults = CoverageParser.aggregateResults(allResults)
AggregateCurrent ==
  /\ covPc = "current"
  /\ covCurrent' = aggregateResults(covResults)
  /\ covPc' = "compare"
  /\ UNCHANGED <<vars_manager, runVars, xmlVars, hookVars, covBaseDocs, covResults, covBase,
                 covComparison, covExchanged>>

\* CoverageComparator.compareResults(baseResults, aggregatedResults)
CompareCoverage ==
  /\ covPc = "compare"
  /\ covComparison' = compareResults(covBase, covCurrent)
  /\ covPc' = "exchanged"
  /\ UNCHANGED <<vars_manager, runVars, xmlVars, hookVars, covBaseDocs, covResults, covBase,
                 covCurrent, covExchanged>>

\* compareResults applied to the same two summaries in the other order
CompareExchanged ==
  /\ covPc = "exchanged"
  /\ covExchanged' = compareResults(covCurrent, covBase)
  /\ covPc' = "done"
  /\ UNCHANGED <<vars_manager, runVars, xmlVars, hookVars, covBaseDocs, covResults, covBase,
                 covCurrent, covComparison>>

NextCoverage ==
  \/ AggregateBase
  \/ AggregateCurrent
  \/ CompareCoverage
  \/ CompareExchanged

SpecCoverage == InitCoverage /\ [][NextCoverage]_vars

\* ---------------------------------------------------------------------
\* The parse loop of processCoverage over the documents of the report
\* files, regular or not, followed by the aggregation of the successes.

\* Documents without coverage, project or metrics elements, with empty
\* elements (read as <<>> or ""), with white space in front of a numeral
\* (a space; U+2028 and NBSP; U+3000 and U+FEFF),
\* with irregular counts, with rounding ties in the summed counts (160
\* statements and conditionals over two reports), and with line elements:
\* one or several, typed, untyped or with an empty type, without attributes,
\* with branch counts; and the null the reader returns for a blank document.
IrregularDocuments ==
  LET \* more statements covered than there are
      AttrsOverCovered == Attrs(3, 5, 2, 3, 1, 1)
      \* negative counts, and no methods attributes
      AttrsNegative ==
        [statements |-> Numeral(3),
         coveredstatements |-> <<"-">> \o Numeral(1),
         conditionals |-> <<"-">> \o Numeral(2),
         coveredconditionals |-> Numeral(1)]
      \* a metrics element that also states a line rate of 99
      AttrsWithRate ==
        [statements |-> Numeral(3), coveredstatements |-> Numeral(2),
         conditionals |-> Numeral(3), coveredconditionals |-> Numeral(1),
         methods |-> Numeral(2), coveredmethods |-> Numeral(1),
         linerate |-> Numeral(99)]
  IN
  { [html |-> [title |-> "report"]],
    [coverage |-> [generated |-> Numeral(17), project |-> <<>>]],
    [coverage |->
       [generated |-> <<" ">> \o Numeral(17),
        project |->
          [metrics |-> Attrs(1, 1, 0, 0, 1, 1),
           file |->
             [array |->
                << [name |-> "", path |-> "src/e.ts",
                    metrics |-> Attrs(1, 1, 0, 0, 1, 1), line |-> <<>>],
                   [path |-> "src/f.ts", metrics |-> <<>>,
                    line |->
                      [array |->
                         << <<>>,
                            [num |-> Numeral(4), count |-> Numeral(1),
                             type |-> ""],
                            [num |-> Numeral(5), count |-> Numeral(2),
                             type |-> "cond", truecount |-> Numeral(1),
                             falsecount |-> Numeral(0)] >>]] >>]]]],
    Clover(Attrs(100, 20, 64, 40, 1, 1), <<>>),
    Clover(Attrs(60, 3, 96, 1, 1, 1), <<>>),
    [coverage |-> [generated |-> Numeral(17)]],
    [coverage |->
       [generated |-> Numeral(17),
        project |->
          [file |-> FileElement("src/a.ts", Attrs(3, 2, 3, 1, 2, 1))]]],
    Clover(Attrs(1, 1, 0, 0, 1, 1), <<[path |-> "src/e.ts"]>>),
    Clover(AttrsOverCovered, <<FileElement("src/e.ts", AttrsOverCovered)>>),
    Clover(AttrsNegative, <<FileElement("src/e.ts", AttrsNegative)>>),
    Clover([statements |-> Numeral(4)], <<>>),
    Clover(AttrsWithRate, <<FileElement("src/e.ts", AttrsWithRate)>>),
    Clover(Attrs(5, 3, 3, 1, 2, 2),
           << [name |-> "e.ts", path |-> "src/e.ts",
               metrics |-> Attrs(2, 1, 2, 1, 1, 1),
               line |-> [num |-> Numeral(1), count |-> Numeral(2),
                         type |-> "stmt"]],
              [name |-> "f.ts", path |-> "src/f.ts",
               metrics |-> Attrs(3, 2, 1, 0, 1, 1),
               line |->
                 [array |->
                    << [num |-> Numeral(1), count |-> Numeral(2),
                        type |-> "stmt"],
                       [num |-> Numeral(2), count |-> Numeral(0),
                        type |-> "cond"],
                       [num |-> <<"U+2028", " ">> \o Numeral(3),
                        count |-> <<"U+3000", "﻿">> \o Numeral(1)] >>]] >>),
    Null }

\* the documents of the report files: the reports and the irregular ones
XmlDocuments ==
  { CloverReports[i] : i \in DOMAIN CloverReports } \cup IrregularDocuments

\* processCoverage has found and validated at least one report file
InitParser ==
  /\ IdleManager
  /\ IdleRun
  /\ IdleCoverage
  /\ IdleHook
  /\ xmlDocs \in SeqsUpTo(XmlDocuments, MaxDocs) \ {<<>>}
  /\ xmlResults = <<>>
  /\ xmlSummary = Null
  /\ xmlPc = "parse"

\* one turn of the loop: try { allResults.push(await parser.parseFile(file)) }
\* catch { core.error(...) }, the error being kept here beside the results
ParseFile ==
  /\ xmlPc = "parse"
  /\ Len(xmlResults) < Len(xmlDocs)
  /\ xmlResults' = Append(xmlResults, parseXML(xmlDocs[Len(xmlResults) + 1]))
  /\ UNCHANGED <<vars_manager, runVars, covVars, hookVars, xmlDocs, xmlSummary, xmlPc>>

\* if (allResults.length === 0) throw ...;
\* aggregatedResults = CoverageParser.aggregateResults(allResults)
AggregateParsed ==
  /\ xmlPc = "parse"
  /\ Len(xmlResults) = Len(xmlDocs)
  /\ LET parsed == SelectSeq(xmlResults, LAMBDA r : ~IsParseError(r))
     IN  IF parsed = <<>>
         THEN xmlPc' = "failed" /\ UNCHANGED xmlSummary
         ELSE xmlPc' = "done" /\ xmlSummary' = aggregateResults(parsed)
  /\ UNCHANGED <<vars_manager, runVars, covVars, hookVars, xmlDocs, xmlResults>>

NextParser == ParseFile \/ AggregateParsed

SpecParser == InitParser /\ [][NextParser]_vars

\* ---------------------------------------------------------------------
\* The dashboard's useArtifacts hook. The effect runs when the component
\* mounts and again when owner, repo, branch or timeRange change. An effect
\* that finds owner, repo or branch empty sets loading to false and returns:
\* it starts no fetch and installs no cleanup. Every other effect has its
\* own cancelled flag and its own fetchArtifacts call, which is suspended at
\* an await between two steps. A date is a number; an owner, repo or branch
\* that is undefined or empty is "".

RunsToProcessLimit == 20

MaxHookRuns == 2

TimeRange == [start |-> 1, end |-> 9]

\* the owner, repo and branch the component can be given
HookDeps ==
  { [owner |-> "getsentry", repo |-> "codecov-action", branch |-> "main"],
    [owner |-> "", repo |-> "codecov-action", branch |-> "main"],
    [owner |-> "getsentry", repo |-> "", branch |-> "main"],
    [owner |-> "getsentry", repo |-> "codecov-action", branch |-> ""] }

\* a workflow run of the listing, with what the platform answers for it:
\* artifacts is "ok" or "throws" (getRunArtifacts); test and coverage are
\* "none" (no unexpired artifact of that kind), "ok", "downloadThrows"
\* (downloadArtifact rejects), "parseThrows" (parseArtifact rejects) or
\* "noData" (parseArtifact resolves without data of that kind)
HookRun(id, sha, at, arts, test, cov) ==
  [id |-> id, head_sha |-> sha, created_at |-> at, artifacts |-> arts,
   test |-> test, coverage |-> cov]

\* the listings getWorkflowRuns can return; the two long ones have 20 and
\* 21 runs in the time range, none with a codecov artifact
HookListings ==
  LET LongListing(n) ==
        [i \in 1..n |-> HookRun(100 + i, "d", 5, "ok", "none", "none")]
  IN  SeqsUpTo({ HookRun(1, "a", 5, "ok", "ok", "ok"),
                 HookRun(2, "a", 3, "ok", "ok", "downloadThrows"),
                 HookRun(3, "b", 4, "ok", "none", "none"),
                 HookRun(4, "a", 7, "ok", "parseThrows", "none"),
                 HookRun(5, "c", 0, "ok", "ok", "none"),
                 HookRun(6, "b", 8, "throws", "none", "none"),
                 HookRun(7, "b", 6, "ok", "noData", "ok") }, MaxHookRuns)
        \cup { LongListing(RunsToProcessLimit),
               LongListing(RunsToProcessLimit + 1) }

\* runs.filter(run => runDate >= timeRange.start && runDate <= timeRange.end)
FilterByTime(runs) ==
  SelectSeq(runs, LAMBDA run : /\ run.created_at >= TimeRange.start
                               /\ run.created_at <= TimeRange.end)

\* every filtered run processed
RunsToProcessAll(filteredRuns) == filteredRuns

\* filteredRuns.slice(0, 20)
RunsToProcess(filteredRuns) ==
  SubSeq(filteredRuns, 1, Min(Len(filteredRuns), RunsToProcessLimit))

\* Array.prototype.sort by date, which is stable: the last point goes
\* behind the entries that do not come after it
RECURSIVE SortByDate(_, _)
SortByDate(points, newestFirst) ==
  IF points = <<>> THEN <<>>
  ELSE LET sorted == SortByDate(SubSeq(points, 1, Len(points) - 1),
                                newestFirst)
           point == points[Len(points)]
           n == Cardinality({ i \in DOMAIN sorted :
                                IF newestFirst
                                THEN sorted[i].date >= point.date
                                ELSE sorted[i].date <= point.date })
       IN  SubSeq(sorted, 1, n) \o <<point>>
             \o SubSeq(sorted, n + 1, Len(sorted))

\* if (!uniqueDataPoints.has(point.commitSha)) uniqueDataPoints.set(...)
RECURSIVE UniqueDataPoints(_)
UniqueDataPoints(points) ==
  IF points = <<>> THEN <<>>
  ELSE LET before == UniqueDataPoints(SubSeq(points, 1, Len(points) - 1))
           point == points[Len(points)]
       IN  IF \E i \in DOMAIN before : before[i].commitSha = point.commitSha
           THEN before ELSE Append(before, point)

\* the points sorted oldest first with every commit's points kept
FinalDataPointsAll(points) == SortByDate(points, FALSE)

\* newest first, one point per commit SHA, then oldest first
FinalDataPoints(points) ==
  SortByDate(UniqueDataPoints(SortByDate(points, TRUE)), FALSE)

\* the end of fetchArtifacts with its guards left out
FinishFetchUnguarded(k, points) ==
  /\ data' = FinalDataPoints(points)
  /\ loading' = FALSE
  /\ UNCHANGED error

\* if (!cancelled) { ... setData(finalDataPoints) }
\* finally { if (!cancelled) setLoading(false) }
FinishFetch(k, points) ==
  IF ~cancelled[k]
  THEN /\ data' = FinalDataPoints(points)
       /\ loading' = FALSE
       /\ UNCHANGED error
  ELSE UNCHANGED <<data, loading, error>>

\* catch (err) { if (!cancelled) { setError(err instanceof Error ?
\* err.message : 'Failed to fetch artifacts'); setData([]) } }
\* finally { if (!cancelled) setLoading(false) }
\* The value thrown is [instanceofError |-> TRUE, message |-> its message]
\* for an Error and [instanceofError |-> FALSE] for any other value.
FailFetch(k, err) ==
  IF ~cancelled[k]
  THEN /\ error' = [message |-> IF err.instanceofError THEN err.message
                                ELSE "Failed to fetch artifacts"]
       /\ data' = <<>>
       /\ loading' = FALSE
  ELSE UNCHANGED <<data, loading, error>>

\* the first turn of the loop from i on whose run id has not been seen
RECURSIVE NextUnprocessed(_, _, _)
NextUnprocessed(runs, i, processed) ==
  IF i > Len(runs) THEN i
  ELSE IF runs[i].id \in processed THEN NextUnprocessed(runs, i + 1, processed)
  ELSE i

\* The for loop from its i-th turn up to the next await: it breaks when
\* cancelled, skips the runs whose id was processed and calls
\* getRunArtifacts for the next one; after the loop fetchArtifacts ends.
LoopFrom(k, runs, i, points) ==
  LET j == NextUnprocessed(runs, i, processedRunIds[k])
  IN  /\ dataPoints' = [dataPoints EXCEPT ![k] = points]
      /\ IF cancelled[k] \/ j > Len(runs)
         THEN /\ FinishFetch(k, points)
              /\ fetchPc' = [fetchPc EXCEPT ![k] = "done"]
              /\ fetchIdx' = [fetchIdx EXCEPT ![k] = 0]
              /\ finished' = Append(finished, k)
              /\ UNCHANGED <<processedRunIds, artifactRequests>>
         ELSE /\ processedRunIds' =
                   [processedRunIds EXCEPT ![k] = @ \cup {runs[j].id}]
              /\ artifactRequests' =
                   [artifactRequests EXCEPT ![k] = Append(@, runs[j].id)]
              /\ fetchPc' = [fetchPc EXCEPT ![k] = "awaitArtifacts"]
              /\ fetchIdx' = [fetchIdx EXCEPT ![k] = j]
              /\ UNCHANGED <<finished, data, loading, error>>

\* getWorkflowRuns resolves, or rejects with an Error or with another
\* value; after it has resolved a cancelled fetch returns
ResumeRuns(k) ==
  /\ fetchPc[k] = "awaitRuns"
  /\ \E outcome \in {"resolves", "Error", "other"} :
       IF outcome # "resolves"
       THEN /\ FailFetch(k, IF outcome = "Error"
                            THEN [instanceofError |-> TRUE,
                                  message |-> "Not Found"]
                            ELSE [instanceofError |-> FALSE])
            /\ fetchPc' = [fetchPc EXCEPT ![k] = "done"]
            /\ finished' = Append(finished, k)
            /\ UNCHANGED <<runsToProcess, fetchIdx, processedRunIds,
                           dataPoints, artifactRequests>>
       ELSE IF cancelled[k]
       THEN /\ fetchPc' = [fetchPc EXCEPT ![k] = "done"]
            /\ finished' = Append(finished, k)
            /\ UNCHANGED <<runsToProcess, fetchIdx, processedRunIds,
                           dataPoints, artifactRequests, data, loading, error>>
       ELSE LET runs == RunsToProcess(FilterByTime(hookRuns[k]))
            IN  /\ runsToProcess' = [runsToProcess EXCEPT ![k] = runs]
                /\ LoopFrom(k, runs, 1, <<>>)
  /\ UNCHANGED <<hookDeps, hookRuns, hookMounted, hookEffects, cancelled,
                 dataPoint>>
  /\ UNCHANGED <<vars_manager, runVars, covVars, xmlVars>>

\* dataPoint.tests || dataPoint.coverage
HasData(point) == point.tests # Null \/ point.coverage # Null

\* the end of a turn of the loop: the point is kept if it has data
EndRun(k, point) ==
  /\ dataPoint' = [dataPoint EXCEPT ![k] = Null]
  /\ LoopFrom(k, runsToProcess[k], fetchIdx[k] + 1,
              IF HasData(point) THEN Append(dataPoints[k], point)
              ELSE dataPoints[k])

\* after the block of the test artifact: if (coverageArtifact) the download
\* of the coverage artifact starts, otherwise the turn ends
AfterTest(k, point) ==
  IF runsToProcess[k][fetchIdx[k]].coverage # "none"
  THEN /\ dataPoint' = [dataPoint EXCEPT ![k] = point]
       /\ fetchPc' = [fetchPc EXCEPT ![k] = "awaitCoverageDownload"]
       /\ UNCHANGED <<fetchIdx, processedRunIds, dataPoints,
                      artifactRequests, finished, data, loading, error>>
  ELSE EndRun(k, point)

\* getRunArtifacts resolves or rejects; without a codecov artifact the
\* loop continues, otherwise the first download starts
ResumeArtifacts(k) ==
  /\ fetchPc[k] = "awaitArtifacts"
  /\ LET run == runsToProcess[k][fetchIdx[k]]
     IN  IF run.artifacts = "throws"
            \/ (run.test = "none" /\ run.coverage = "none")
         THEN /\ LoopFrom(k, runsToProcess[k], fetchIdx[k] + 1, dataPoints[k])
              /\ UNCHANGED dataPoint
         ELSE /\ dataPoint' =
                   [dataPoint EXCEPT ![k] =
                      [date |-> run.created_at, commitSha |-> run.head_sha,
                       runId |-> run.id, tests |-> Null, coverage |-> Null]]
              /\ fetchPc' =
                   [fetchPc EXCEPT ![k] = IF run.test # "none"
                                          THEN "awaitTestDownload"
                                          ELSE "awaitCoverageDownload"]
              /\ UNCHANGED <<fetchIdx, processedRunIds, dataPoints,
                             artifactRequests, finished, data, loading, error>>
  /\ UNCHANGED <<hookDeps, hookRuns, hookMounted, hookEffects, cancelled,
                 runsToProcess>>
  /\ UNCHANGED <<vars_manager, runVars, covVars, xmlVars>>

\* downloadArtifact of the test artifact resolves, and parseArtifact is
\* called, or rejects: the error is logged and the test block is left
ResumeTestDownload(k) ==
  /\ fetchPc[k] = "awaitTestDownload"
  /\ IF runsToProcess[k][fetchIdx[k]].test = "downloadThrows"
     THEN AfterTest(k, dataPoint[k])
     ELSE /\ fetchPc' = [fetchPc EXCEPT ![k] = "awaitTestParse"]
          /\ UNCHANGED <<dataPoint, fetchIdx, processedRunIds, dataPoints,
                         artifactRequests, finished, data, loading, error>>
  /\ UNCHANGED <<hookDeps, hookRuns, hookMounted, hookEffects, cancelled,
                 runsToProcess>>
  /\ UNCHANGED <<vars_manager, runVars, covVars, xmlVars>>

\* parseArtifact of the test artifact resolves, and parsed.tests if there
\* is one is kept in the point, or rejects: the error is logged only
ResumeTestParse(k) ==
  /\ fetchPc[k] = "awaitTestParse"
  /\ LET run == runsToProcess[k][fetchIdx[k]]
     IN  AfterTest(k, IF run.test = "ok"
                      THEN [dataPoint[k] EXCEPT !.tests = [total |-> run.id]]
                      ELSE dataPoint[k])
  /\ UNCHANGED <<hookDeps, hookRuns, hookMounted, hookEffects, cancelled,
                 runsToProcess>>
  /\ UNCHANGED <<vars_manager, runVars, covVars, xmlVars>>

\* downloadArtifact of the coverage artifact resolves, and parseArtifact
\* is called, or rejects: the error is logged and the turn ends
ResumeCoverageDownload(k) ==
  /\ fetchPc[k] = "awaitCoverageDownload"
  /\ IF runsToProcess[k][fetchIdx[k]].coverage = "downloadThrows"
     THEN EndRun(k, dataPoint[k])
     ELSE /\ fetchPc' = [fetchPc EXCEPT ![k] = "awaitCoverageParse"]
          /\ UNCHANGED <<dataPoint, fetchIdx, processedRunIds, dataPoints,
                         artifactRequests, finished, data, loading, error>>
  /\ UNCHANGED <<hookDeps, hookRuns, hookMounted, hookEffects, cancelled,
                 runsToProcess>>
  /\ UNCHANGED <<vars_manager, runVars, covVars, xmlVars>>

\* parseArtifact of the coverage artifact resolves, and parsed.coverage if
\* there is one is kept in the point, or rejects; the turn ends
ResumeCoverageParse(k) ==
  /\ fetchPc[k] = "awaitCoverageParse"
  /\ LET run == runsToProcess[k][fetchIdx[k]]
     IN  EndRun(k, IF run.coverage = "ok"
                   THEN [dataPoint[k] EXCEPT !.coverage = [lineRate |-> run.id]]
                   ELSE dataPoint[k])
  /\ UNCHANGED <<hookDeps, hookRuns, hookMounted, hookEffects, cancelled,
                 runsToProcess>>
  /\ UNCHANGED <<vars_manager, runVars, covVars, xmlVars>>

\* if (!owner || !repo || !branch): the effect of these deps returns early
ReturnsEarly(deps) == deps.owner = "" \/ deps.repo = "" \/ deps.branch = ""

\* owner, repo, branch or timeRange change (a new timeRange object with the
\* same owner, repo and branch reruns the effect too). The cleanup of the
\* first effect, if it installed one, sets its cancelled flag; then the
\* effect runs again: with owner, repo or branch empty it calls
\* setLoading(false) and returns, otherwise it calls setLoading(true) and
\* setError(null) and starts a fetch
ChangeDeps ==
  /\ hookMounted /\ hookEffects = 1
  /\ IF ReturnsEarly(hookDeps[1]) THEN UNCHANGED cancelled
     ELSE cancelled' = [cancelled EXCEPT ![1] = TRUE]
  /\ hookEffects' = 2
  /\ \E deps \in HookDeps :
       /\ hookDeps' = [hookDeps EXCEPT ![2] = deps]
       /\ IF ReturnsEarly(deps)
          THEN /\ loading' = FALSE
               /\ UNCHANGED <<error, fetchPc, hookRuns>>
          ELSE /\ loading' = TRUE
               /\ error' = Null
               /\ fetchPc' = [fetchPc EXCEPT ![2] = "awaitRuns"]
               /\ \E runs \in { <<HookRun(3, "b", 4, "ok", "none", "none")>>,
                                 <<HookRun(7, "b", 6, "ok", "noData", "ok"),
                                   HookRun(1, "a", 5, "ok", "ok", "ok")>> } :
                    hookRuns' = [hookRuns EXCEPT ![2] = runs]
  /\ UNCHANGED <<hookMounted, runsToProcess, fetchIdx,
                 processedRunIds, dataPoints, dataPoint, artifactRequests,
                 finished, data>>
  /\ UNCHANGED <<vars_manager, runVars, covVars, xmlVars>>

\* the component unmounts: the cleanup of the latest effect runs, if it
\* installed one
Unmount ==
  /\ hookMounted
  /\ hookMounted' = FALSE
  /\ IF ReturnsEarly(hookDeps[hookEffects]) THEN UNCHANGED cancelled
     ELSE cancelled' = [cancelled EXCEPT ![hookEffects] = TRUE]
  /\ UNCHANGED <<hookDeps, hookRuns, hookEffects, fetchPc, runsToProcess,
                 fetchIdx, processedRunIds, dataPoints, dataPoint,
                 artifactRequests, finished, data>>
  /\ UNCHANGED <<loading, error>>
  /\ UNCHANGED <<vars_manager, runVars, covVars, xmlVars>>

\* the component has mounted and the effect has run once, from the initial
\* state data [], loading true, error null: with owner, repo or branch
\* empty it has called setLoading(false) and returned; otherwise it has
\* called setLoading(true) and setError(null), and getWorkflowRuns
InitHook ==
  /\ IdleManager
  /\ IdleRun
  /\ IdleCoverage
  /\ IdleParser
  /\ \E deps \in HookDeps :
       /\ hookDeps = [k \in Fetches |-> IF k = 1 THEN deps ELSE <<>>]
       /\ \E runs \in IF ReturnsEarly(deps) THEN {<<>>} ELSE HookListings :
            hookRuns = [k \in Fetches |-> IF k = 1 THEN runs ELSE <<>>]
       /\ fetchPc = [k \in Fetches |->
                       IF k = 1 /\ ~ReturnsEarly(deps) THEN "awaitRuns"
                       ELSE "none"]
       /\ loading = ~ReturnsEarly(deps)
  /\ hookMounted = TRUE
  /\ hookEffects = 1
  /\ cancelled = [k \in Fetches |-> FALSE]
  /\ runsToProcess = [k \in Fetches |-> <<>>]
  /\ fetchIdx = [k \in Fetches |-> 0]
  /\ processedRunIds = [k \in Fetches |-> {}]
  /\ dataPoints = [k \in Fetches |-> <<>>]
  /\ dataPoint = [k \in Fetches |-> Null]
  /\ artifactRequests = [k \in Fetches |-> <<>>]
  /\ finished = <<>>
  /\ data = <<>>
  /\ error = Null

NextHook ==
  \/ ChangeDeps
  \/ Unmount
  \/ \E k \in Fetches :
       \/ ResumeRuns(k)
       \/ ResumeArtifacts(k)
       \/ ResumeTestDownload(k)
       \/ ResumeTestParse(k)
       \/ ResumeCoverageDownload(k)
       \/ ResumeCoverageParse(k)

SpecHook == InitHook /\ [][NextHook]_vars

-----------------------------------------------------------------------------
(* Properties *)

\* downloadBase*Results has run and returned
Retrieved == runListCalls # <<>> /\ pc \in {"compare", "returned"}

\* the run listing the tests expect first when a base SHA is supplied
ShaListParams ==
  [head_sha |-> baseSha, status |-> "success", per_page |-> 10]

\* the run listing by base branch
BranchListParams ==
  [branch |-> baseBranch, status |-> "success", per_page |-> 10]

\* the candidate names in the order of preference the claims state: current
\* scheme with and without qualifiers, then legacy scheme with and without
PreferenceOrder ==
  << getArtifactName(baseBranch, kind, NamingFlags, name),
     getArtifactName(baseBranch, kind, <<>>, <<>>),
     getLegacyArtifactName(baseBranch, kind, NamingFlags, name),
     getLegacyArtifactName(baseBranch, kind, <<>>, <<>>) >>

IsCandidate(artifact) == \E i \in 1..4 : PreferenceOrder[i] = artifact.name

\* the runs of a listing, as a set
Runs(listing) == {listing[i] : i \in 1..Len(listing)}

\* the unexpired artifacts of a run that carry a candidate name
Matches(run) ==
  {a \in platformArtifacts : a.run = run /\ ~a.expired /\ IsCandidate(a)}

\* C1: when a base SHA is supplied and the SHA has no successful run, a
\* retrieval whose listings succeed lists runs by head_sha first and by
\* branch second, both with status success and page size 10, and then scans
\* the artifacts of the branch's runs.
C1_ShaThenBranchListing ==
  (Retrieved /\ baseSha # <<>> /\ shaRuns = <<>> /\ failure # "listRuns")
    => /\ Len(runListCalls) = 2
       /\ runListCalls[1] = ShaListParams
       /\ runListCalls[2] = BranchListParams
       /\ (branchRuns # <<>> => artifactListCalls # <<>>
                                 /\ artifactListCalls[1] = branchRuns[1])

\* C2: when a base SHA is supplied and the SHA has a successful run, the
\* retrieval makes exactly one run listing, filtered by head_sha, and scans
\* the runs of that listing; no listing is filtered by branch.
C2_ShaRunsWithoutBranchListing ==
  (Retrieved /\ baseSha # <<>> /\ shaRuns # <<>> /\ failure # "listRuns")
    => /\ runListCalls = <<ShaListParams>>
       /\ workflowRuns = shaRuns

\* C3: a retrieval with a base SHA ends not-found only after the SHA tier
\* and then the branch tier were both consulted and both missed.
C3_NotFoundAfterBothTiers ==
  (Retrieved /\ baseSha # <<>> /\ failure = "none" /\ baseResults = Null)
    => /\ Len(runListCalls) = 2
       /\ runListCalls[1] = ShaListParams
       /\ runListCalls[2] = BranchListParams

\* C4: without a base SHA a retrieval makes exactly one run listing,
\* filtered by the base branch with status success and page size 10, and
\* never a listing filtered by head_sha.
C4_BranchListingOnly ==
  baseSha = <<>>
    => /\ \A i \in 1..Len(runListCalls) : runListCalls[i] = BranchListParams
       /\ Len(runListCalls) <= 1
       /\ (Retrieved => Len(runListCalls) = 1)

C4_Witness ==
  /\ Retrieved /\ baseSha = <<>> /\ caller = "direct"
  /\ runListCalls = <<BranchListParams>>
  /\ Len(artifactListCalls) = 2

\* C5: the artifact selected in a scanned run is unexpired, belongs to that
\* run, and carries the earliest name of the preference order that any
\* unexpired artifact of the run carries.
C5_EarliestCandidateSelected ==
  found # NoArtifact
    => /\ ~found.expired
       /\ found \in platformArtifacts
       /\ found.run = workflowRuns[runIdx]
       /\ \E i \in 1..4 :
            /\ PreferenceOrder[i] = found.name
            /\ \A j \in 1..(i - 1) : \A a \in Matches(found.run) :
                 a.name # PreferenceOrder[j]

\* a run holds unexpired artifacts under the second and the fourth
\* candidate name, and the one under the second was selected
C5_Witness ==
  /\ found # NoArtifact
  /\ found.name = PreferenceOrder[2]
  /\ PreferenceOrder[1] # PreferenceOrder[2]
  /\ PreferenceOrder[2] # PreferenceOrder[4]
  /\ \E a \in Matches(found.run) : a.name = PreferenceOrder[4]

\* the artifact the scenario of C6 is about: unexpired, stored under the
\* legacy unqualified name in a listed branch run that holds no other
\* candidate-named artifact, no earlier-listed run holding an unexpired one
C6_LegacyOnly(a) ==
  /\ a.name = PreferenceOrder[4]
  /\ ~a.expired
  /\ \E i \in 1..Len(branchRuns) :
       /\ branchRuns[i] = a.run
       /\ \A j \in 1..(i - 1) : Matches(branchRuns[j]) = {}
  /\ \A b \in platformArtifacts :
       (b.run = a.run /\ IsCandidate(b)) => b = a

\* C6: if the base SHA has no successful run, the base branch has a
\* successful run whose only matching artifact is unexpired and stored under
\* the legacy unqualified name, and every platform call and the extraction
\* succeed, the retrieval returns that artifact's stored summary, selected
\* under the last candidate name, and nothing is thrown.
C6_LegacyFallbackFound ==
  \A a \in platformArtifacts :
    (Retrieved /\ baseSha # <<>> /\ shaRuns = <<>> /\ failure = "none"
       /\ C6_LegacyOnly(a))
      => /\ baseResults = StoredSummary(a)
         /\ baseResults # Null
         /\ found = a
         /\ artifactNamesToTry[Len(artifactNamesToTry)] = a.name
         /\ (githubJob # <<>> => Len(artifactNamesToTry) = 4)
         /\ ~thrown

C6_Witness ==
  /\ Retrieved /\ baseSha # <<>> /\ shaRuns = <<>> /\ failure = "none"
  /\ githubJob # <<>>
  /\ Len(branchRuns) = 1
  /\ found # NoArtifact /\ C6_LegacyOnly(found)
  /\ baseResults = StoredSummary(found)

\* the artifact with a given id
ArtifactById(id) == CHOOSE a \in platformArtifacts : a.id = id

\* C7: no expired artifact is ever selected, downloaded or returned; when
\* every candidate-named artifact of the listed runs is expired and no call
\* fails, every listed run is scanned, nothing is downloaded and the result
\* is null.
C7_ExpiredNeverUsed ==
  /\ found # NoArtifact => ~found.expired
  /\ \A i \in 1..Len(downloadCalls) : ~ArtifactById(downloadCalls[i]).expired
  /\ baseResults # Null
       => \E a \in platformArtifacts : ~a.expired /\ baseResults = StoredSummary(a)
  /\ (Retrieved /\ failure = "none"
        /\ \A r \in Runs(workflowRuns) : Matches(r) = {})
       => /\ baseResults = Null
          /\ downloadCalls = <<>>
          /\ artifactListCalls = workflowRuns

\* two runs were scanned, both hold only expired candidate-named artifacts
C7_Witness ==
  /\ Retrieved /\ failure = "none" /\ baseResults = Null
  /\ Len(artifactListCalls) = 2
  /\ \A r \in Runs(workflowRuns) :
       /\ Matches(r) = {}
       /\ \E a \in platformArtifacts : a.run = r /\ a.expired /\ IsCandidate(a)

\* the comparison outputs of a pipeline run without base results
C8_NoComparisonOutputs ==
  IF kind = "test"
  THEN /\ outputs["tests-added"] = "0" /\ outputs["tests-removed"] = "0"
       /\ outputs["tests-fixed"] = "0" /\ outputs["tests-broken"] = "0"
  ELSE /\ outputs["coverage-change"] = "0"
       /\ outputs["branch-coverage-change"] = "0"
       /\ outputs["coverage-improved"] = "false"

\* C8: a retrieval never throws; a failed listing, download or extraction,
\* and a retrieval that selects no artifact, return null; the pipeline then
\* returns the current summary without a comparison, with the comparison
\* outputs "0"/"false", and setFailed is not called.
C8_RetrievalNeverFailsTheRun ==
  /\ ~thrown
  /\ failure # "none" => (Retrieved /\ baseResults = Null)
  /\ (Retrieved /\ found = NoArtifact) => baseResults = Null
  /\ (caller = "pipeline" /\ runListCalls # <<>>) => ~setFailed /\ pc # "failed"
  /\ (caller = "pipeline" /\ pc = "returned" /\ Retrieved /\ baseResults = Null)
       => /\ aggregatedResults # Null
          /\ aggregatedResults.comparison = NoComparison
          /\ C8_NoComparisonOutputs
          /\ ~setFailed

\* the pipeline returned after the download of the selected artifact failed
C8_Witness ==
  /\ caller = "pipeline" /\ pc = "returned"
  /\ failure = "download"
  /\ aggregatedResults # Null /\ aggregatedResults.comparison = NoComparison
  /\ ~setFailed

\* C9 as stated: after the artifact listing of one run failed, an unexpired
\* matching artifact of a later-listed run is still selected.
C9_LaterRunStillFound ==
  (Retrieved /\ failure = "listArtifacts"
     /\ \E i \in (runIdx + 1)..Len(workflowRuns) : Matches(workflowRuns[i]) # {})
    => found # NoArtifact

\* C9 amended: a failed artifact listing or download ends the retrieval at
\* once: it has returned null without throwing, with a warning, and no run
\* after the failing one was scanned, no other listing made and no other
\* artifact downloaded.
C9_FailureEndsRetrieval ==
  failure \in {"listArtifacts", "download"}
    => /\ Retrieved /\ baseResults = Null /\ ~thrown
       /\ warnings >= 1
       /\ Len(runListCalls) = 1
       /\ Len(artifactListCalls) = runIdx
       /\ Len(downloadCalls) = (IF failure = "download" THEN 1 ELSE 0)

\* the listing of the first run failed while the second run holds an
\* unexpired matching artifact
C9_Witness ==
  /\ Retrieved /\ failure = "listArtifacts" /\ baseResults = Null
  /\ runIdx = 1 /\ Len(workflowRuns) = 2
  /\ Matches(workflowRuns[2]) # {}

\* C10: upload*Results always returns normally and changes nothing but the
\* upload record and the warning count, warning exactly when the upload
\* failed; whenever the pipeline has returned after a failed upload, nothing
\* was thrown, setFailed was not called, and summary and outputs are those
\* determined by the aggregate and the base results alone.
C10_UploadFailureSwallowed ==
  /\ [][pc = "upload"
          => /\ pc' = AfterUpload
             /\ warnings' = warnings + (IF uploadFailed' THEN 1 ELSE 0)
             /\ UNCHANGED <<inputVars, otherVars, parseVars, aggregatedResults, baseResults, outputs,
                            thrown, setFailed, failure, found, runListCalls>>]_vars
  /\ [](uploadFailed => ~thrown /\ ~setFailed /\ pc # "failed")
  /\ []((caller = "pipeline" /\ pc = "returned" /\ uploadFailed)
          => /\ aggregatedResults.total \in 1..MaxFiles
             /\ aggregatedResults.comparison =
                  (IF baseResults = Null THEN NoComparison
                   ELSE [base |-> baseResults])
             /\ outputs =
                  SetOutputs(IF baseResults = Null THEN NoBaseOutputs
                             ELSE ComparisonOutputs, SummaryOutputs))

\* the pipeline returned a summary with a comparison after a failed upload
C10_Witness ==
  /\ caller = "pipeline" /\ pc = "returned" /\ uploadFailed
  /\ aggregatedResults # Null
  /\ aggregatedResults.comparison # NoComparison

\* the legacy-scheme names for the arguments of the upload
LegacyUploadNames ==
  { getLegacyArtifactName(currentBranch, kind, NamingFlags, name),
    getLegacyArtifactName(currentBranch, kind, <<>>, <<>>) }

\* C11 as stated: in every environment, no upload is made under a name of
\* the legacy scheme.
C11_NeverLegacyName ==
  \A i \in 1..Len(uploadCalls) : uploadCalls[i].name \notin LegacyUploadNames

\* C11 amended: a call of upload*Results uploads once; when GITHUB_JOB is
\* set the name carries the job id after the branch and is none of the
\* legacy-scheme names for the same arguments; when GITHUB_JOB is unset the
\* name is the legacy-scheme name for the same arguments.
C11_LegacyNameOnlyWithoutJob ==
  /\ Len(uploadCalls) <= 1
  /\ \A i \in 1..Len(uploadCalls) :
       LET prefix == "codecov-" \o kind \o "-results-"
                       \o sanitizeBranchName(currentBranch)
           suffix == nameAndFlagSuffix(NamingFlags, name)
       IN  IF githubJob # <<>>
           THEN /\ uploadCalls[i].name \notin LegacyUploadNames
                /\ uploadCalls[i].name =
                     prefix \o "-" \o sanitizeBranchName(githubJob) \o suffix
           ELSE uploadCalls[i].name = prefix \o suffix

\* an upload with flags and a name while GITHUB_JOB is set
C11_Witness ==
  /\ Len(uploadCalls) = 1 /\ githubJob # <<>>
  /\ flags # <<>> /\ name # <<>> /\ kind = "coverage"
  /\ uploadCalls[1].name = "codecov-coverage-results-feat-x-build-node-20-unit-e2e"

\* C12: a retrieval makes at most two run listings, each for successful
\* runs with page size 10, lists the artifacts of each returned run at most
\* once and of no other run, and downloads at most one artifact.
C12_BoundedPlatformCalls ==
  /\ Len(runListCalls) <= 2
  /\ \A i \in 1..Len(runListCalls) :
       runListCalls[i].status = "success" /\ runListCalls[i].per_page = 10
  /\ Len(workflowRuns) <= 10
  /\ Len(artifactListCalls) <= Len(workflowRuns)
  /\ \A i \in 1..Len(artifactListCalls) :
       artifactListCalls[i] = workflowRuns[i]
  /\ \A i, j \in 1..Len(artifactListCalls) :
       artifactListCalls[i] = artifactListCalls[j] => i = j
  /\ Len(downloadCalls) <= 1

\* a retrieval that listed runs once, scanned two runs and downloaded
C12_Witness ==
  /\ Retrieved /\ baseResults # Null
  /\ Len(runListCalls) = 1 /\ Len(artifactListCalls) = 2
  /\ Len(downloadCalls) = 1

\* the valid files whose parse succeeded
ParsedOk == { i \in DOMAIN parseOutcomes : parseOutcomes[i] = "ok" }

\* what C13 says of the files the parse loop ran over: every file that
\* parsed is kept, in order, and no file that threw; if some file parsed the
\* pipeline goes on to upload the aggregate of the successes only
C13_SuccessesOnly ==
  /\ { allResults[k] : k \in DOMAIN allResults } = ParsedOk
  /\ Len(allResults) = Cardinality(ParsedOk)
  /\ \A j, k \in DOMAIN allResults : j < k => allResults[j] < allResults[k]
  /\ ParsedOk # {} =>
       /\ ~setFailed /\ pc # "failed"
       /\ aggregatedResults # Null
       /\ aggregatedResults.total = Cardinality(ParsedOk)

\* the hard failure: setFailed, nothing aggregated, nothing uploaded
C13_HardFailure ==
  /\ setFailed /\ pc = "failed"
  /\ aggregatedResults = Null /\ uploadCalls = <<>>

\* C13 as stated: once processTestResults / processCoverage is past its
\* parse loop, a file whose parse threw has contributed nothing and the
\* other files were parsed; if some file parsed the pipeline goes on with
\* the aggregate of the successes only; if no report file was successfully
\* parsed it ends in the hard failure.
C13_BadFileSkippedOnly ==
  (caller = "pipeline" /\ pc \notin {"process", "parse"})
    => /\ C13_SuccessesOnly
       /\ ParsedOk = {} => C13_HardFailure

\* C13 amended: as stated when findFiles returned some file; when it
\* returned none, no report file is parsed and the function does not fail:
\* it warns twice, writes the zero outputs and returns null, with nothing
\* aggregated or uploaded and without setFailed.
C13_BadFileSkippedNoFileTolerated ==
  (caller = "pipeline" /\ pc \notin {"process", "parse"})
    => /\ C13_SuccessesOnly
       /\ (ParsedOk = {} /\ filesFound > 0) => C13_HardFailure
       /\ filesFound = 0 =>
            /\ parseOutcomes = <<>>
            /\ ~setFailed /\ pc = "returned"
            /\ warnings = 2
            /\ outputs = NoFilesOutputs
            /\ aggregatedResults = Null /\ uploadCalls = <<>>

\* the first file throws, the second parses, and the run goes on to upload
C13_Witness ==
  /\ caller = "pipeline"
  /\ filesFound = 2
  /\ parseOutcomes = <<"throws", "ok">>
  /\ allResults = <<2>>
  /\ Len(uploadCalls) = 1 /\ uploadCalls[1].payload.total = 1

\* some platform call of the base retrieval has been made
C15_RetrievalStarted ==
  runListCalls # <<>> \/ artifactListCalls # <<>> \/ downloadCalls # <<>>

\* a comparison is attached to the current summary
C15_ComparisonAttached ==
  aggregatedResults # Null /\ aggregatedResults.comparison # NoComparison

\* the order of the steps of a pipeline run, as a state predicate
C15_Order ==
  /\ caller = "pipeline"
       => /\ uploadCalls # <<>>
               => /\ allResults # <<>>
                  /\ aggregatedResults # Null
                  /\ uploadCalls[1].payload.total = Len(allResults)
          /\ C15_RetrievalStarted => Len(uploadCalls) = 1
          /\ C15_ComparisonAttached
               => /\ Len(uploadCalls) = 1
                  /\ Len(runListCalls) = 1
                  /\ pc = "returned"
  /\ \A i \in 1..Len(uploadCalls) :
       "comparison" \notin DOMAIN uploadCalls[i].payload

\* C15: in a pipeline run the upload is made only with the aggregate of the
\* completed parse loop, the base retrieval starts only after the upload, a
\* comparison is attached only after the upload and the retrieval and, once
\* attached, never changes; no uploaded payload has a comparison field.
C15_UploadThenBaseThenComparison ==
  /\ []C15_Order
  /\ [][C15_ComparisonAttached => aggregatedResults' = aggregatedResults]_vars

\* a pipeline run that uploaded, found a base and attached the comparison
C15_Witness ==
  /\ caller = "pipeline" /\ pc = "returned"
  /\ C15_ComparisonAttached
  /\ Len(uploadCalls) = 1 /\ Len(downloadCalls) = 1
  /\ DOMAIN uploadCalls[1].payload = {"total"}

\* C14: every finished run of the action has called writeJobSummary.
C14_JobSummaryAlwaysWritten ==
  runPc = "done" => Len(jobSummaryCalls) >= 1

\* two numbers or texts that are the same: the same number, both NaN or
\* both null
SameValue(a, b) == ToString(a) = ToString(b)

\* a number below 0, which NaN is not
Negative(x) == ~IsNaN(x) /\ x < 0

\* two entries of lines, two FileCoverage records, two lists of them and two
\* summaries that are the same in every part
SameLine(a, b) ==
  DOMAIN a = DOMAIN b /\ \A k \in DOMAIN a : SameValue(a[k], b[k])

SameFile(a, b) ==
  /\ DOMAIN a = DOMAIN b
  /\ \A k \in DOMAIN a \ {"lines"} : SameValue(a[k], b[k])
  /\ Len(a.lines) = Len(b.lines)
  /\ \A i \in 1..Len(a.lines) : SameLine(a.lines[i], b.lines[i])

SameFiles(a, b) ==
  Len(a) = Len(b) /\ \A i \in 1..Len(a) : SameFile(a[i], b[i])

SameSummary(a, b) ==
  /\ DOMAIN a = DOMAIN b
  /\ \A k \in DOMAIN a \ {"files"} : SameValue(a[k], b[k])
  /\ SameFiles(a.files, b.files)

\* the sum of one counter over the documents' metrics, first document first
RECURSIVE C16_Sum(_, _)
C16_Sum(docs, counter) ==
  IF docs = <<>> THEN 0
  ELSE Plus(Head(docs).metrics[counter], C16_Sum(Tail(docs), counter))

\* rate, in hundredths of a percent, is covered / total * 100 rounded to
\* two decimals (a hundredth nearest to the quotient) when total > 0, and 0
\* otherwise; the quotient of a covered count that is no number is no number
C16_IsRoundedRate(rate, covered, total) ==
  IF ~Positive(total) THEN IsZero(rate)
  ELSE IF IsNaN(covered) THEN IsNaN(rate)
  ELSE /\ ~IsNaN(rate)
       /\ 2 * total * rate - total <= 20000 * covered
       /\ 20000 * covered <= 2 * total * rate + total

\* C16: the summary aggregateResults returns holds, for each counter, the
\* sum of the documents' counters, and rates recomputed from those sums
\* (0 when the summed total is 0); for no document at all every total and
\* rate is 0 and the file list is empty.
C16_TotalsAndRatesFromSums ==
  covCurrent # Null
    => /\ SameValue(covCurrent.totalStatements,
                    C16_Sum(covResults, "statements"))
       /\ SameValue(covCurrent.coveredStatements,
                    C16_Sum(covResults, "coveredStatements"))
       /\ SameValue(covCurrent.totalConditionals,
                    C16_Sum(covResults, "conditionals"))
       /\ SameValue(covCurrent.coveredConditionals,
                    C16_Sum(covResults, "coveredConditionals"))
       /\ SameValue(covCurrent.totalMethods, C16_Sum(covResults, "methods"))
       /\ SameValue(covCurrent.coveredMethods,
                    C16_Sum(covResults, "coveredMethods"))
       /\ C16_IsRoundedRate(covCurrent.lineRate,
                            C16_Sum(covResults, "coveredStatements"),
                            C16_Sum(covResults, "statements"))
       /\ C16_IsRoundedRate(covCurrent.branchRate,
                            C16_Sum(covResults, "coveredConditionals"),
                            C16_Sum(covResults, "conditionals"))
       /\ aggregateResults(<<>>)
            = [totalStatements |-> 0, coveredStatements |-> 0,
               totalConditionals |-> 0, coveredConditionals |-> 0,
               totalMethods |-> 0, coveredMethods |-> 0,
               lineRate |-> 0, branchRate |-> 0, files |-> <<>>]

\* documents with 2 of 3 and 1 of 4 statements covered (66.67 and 25.00)
\* aggregate to 3 of 7, that is 42.86, not to the mean 45.83
C16_Witness ==
  /\ covCurrent # Null /\ Len(covResults) = 2
  /\ SameValue(covResults[1].metrics.lineRate, 6667)
  /\ SameValue(covResults[2].metrics.lineRate, 2500)
  /\ covCurrent.totalStatements = 7 /\ covCurrent.coveredStatements = 3
  /\ covCurrent.lineRate = 4286

\* the number of files of the documents before document d
RECURSIVE C17_Offset(_)
C17_Offset(d) ==
  IF d <= 1 THEN 0 ELSE C17_Offset(d - 1) + Len(covResults[d - 1].files)

\* C17: the files of the summary are the documents' files one document
\* after the other, each document's files in their order, every entry kept
\* even when its path occurred before.
C17_FilesConcatenated ==
  covCurrent # Null
    => /\ Len(covCurrent.files) = C17_Offset(Len(covResults) + 1)
       /\ \A d \in DOMAIN covResults :
            \A k \in DOMAIN covResults[d].files :
              SameFile(covCurrent.files[C17_Offset(d) + k],
                       covResults[d].files[k])

\* two documents reporting src/a.ts with different counts: both entries
\* are in the summary
C17_Witness ==
  /\ covCurrent # Null /\ Len(covResults) = 2
  /\ Len(covResults[1].files) = 1 /\ Len(covResults[2].files) = 2
  /\ Len(covCurrent.files) = 3
  /\ covCurrent.files[1].path = "src/a.ts"
  /\ covCurrent.files[2].path = "src/a.ts"
  /\ ~SameFile(covCurrent.files[1], covCurrent.files[2])
  /\ covCurrent.files[3].path = "src/b.ts"

\* the paths of a list of files or of file comparisons
C18_Paths(files) == { files[i].path : i \in DOMAIN files }

\* the entry of a summary that stands for a path: the last one reported
C18_Entry(files, path) ==
  files[CHOOSE i \in DOMAIN files :
          /\ files[i].path = path
          /\ \A j \in DOMAIN files : files[j].path = path => j <= i]

\* no path occurs twice in the list
C18_Distinct(files) ==
  \A i, j \in DOMAIN files : files[i].path = files[j].path => i = j

\* the difference of a rate of the path between the two summaries is not 0
C18_RatesDiffer(path) ==
  \/ ~IsZero(Minus(C18_Entry(covCurrent.files, path).lineRate,
                   C18_Entry(covBase.files, path).lineRate))
  \/ ~IsZero(Minus(C18_Entry(covCurrent.files, path).branchRate,
                   C18_Entry(covBase.files, path).branchRate))

\* C18: compareResults(base, current) puts in filesAdded exactly the paths
\* of current that base lacks, in filesRemoved exactly the paths of base
\* that current lacks, and in filesChanged exactly the paths of both whose
\* line rate or branch rate differs; a path of both with equal rates is in
\* none of the lists, and no path is in two lists or twice in one.
C18_ClassifiedByPath ==
  covComparison # Null
    => LET base == C18_Paths(covBase.files)
           current == C18_Paths(covCurrent.files)
           added == C18_Paths(covComparison.filesAdded)
           removed == C18_Paths(covComparison.filesRemoved)
           changed == C18_Paths(covComparison.filesChanged)
       IN  /\ added = current \ base
           /\ removed = base \ current
           /\ changed = { p \in base \cap current : C18_RatesDiffer(p) }
           /\ \A p \in base \cap current :
                ~C18_RatesDiffer(p) => p \notin added \cup removed \cup changed
           /\ added \cap removed = {}
           /\ added \cap changed = {}
           /\ removed \cap changed = {}
           /\ C18_Distinct(covComparison.filesAdded)
           /\ C18_Distinct(covComparison.filesRemoved)
           /\ C18_Distinct(covComparison.filesChanged)
           /\ \A i \in DOMAIN covComparison.filesAdded :
                SameFile(covComparison.filesAdded[i],
                         C18_Entry(covCurrent.files,
                                   covComparison.filesAdded[i].path))
           /\ \A i \in DOMAIN covComparison.filesRemoved :
                SameFile(covComparison.filesRemoved[i],
                         C18_Entry(covBase.files,
                                   covComparison.filesRemoved[i].path))
           /\ \A i \in DOMAIN covComparison.filesChanged :
                \/ ~IsZero(covComparison.filesChanged[i].deltaLineRate)
                \/ ~IsZero(covComparison.filesChanged[i].deltaBranchRate)

\* src/a.ts changed, src/b.ts in both with equal rates, src/c.ts removed and
\* src/d.ts added
C18_Witness ==
  /\ covComparison # Null
  /\ C18_Paths(covBase.files) = {"src/a.ts", "src/b.ts", "src/c.ts"}
  /\ C18_Paths(covCurrent.files) = {"src/a.ts", "src/b.ts", "src/d.ts"}
  /\ C18_Paths(covComparison.filesChanged) = {"src/a.ts"}
  /\ C18_Paths(covComparison.filesRemoved) = {"src/c.ts"}
  /\ C18_Paths(covComparison.filesAdded) = {"src/d.ts"}

\* the scalar deltas of a comparison
C19_Deltas ==
  {"deltaLineRate", "deltaBranchRate", "deltaTotalStatements",
   "deltaCoveredStatements", "deltaTotalConditionals",
   "deltaCoveredConditionals", "deltaTotalMethods", "deltaCoveredMethods",
   "deltaFiles", "deltaLines", "deltaBranches", "deltaHits", "deltaMisses",
   "deltaPartials"}

\* C19: compareResults applied to one summary as base (as the base run
\* uploaded it) and as current yields empty filesAdded, filesRemoved and
\* filesChanged, every delta 0 and improvement false.
C19_SelfComparisonIsNeutral ==
  (covComparison # Null /\ SameSummary(covBase, JsonRoundTrip(covCurrent)))
    => /\ covComparison.filesAdded = <<>>
       /\ covComparison.filesRemoved = <<>>
       /\ covComparison.filesChanged = <<>>
       /\ \A d \in C19_Deltas : IsZero(covComparison[d])
       /\ covComparison.improvement = FALSE

\* the per-file deltas of a file comparison
C20_FileDeltas ==
  {"deltaLineRate", "deltaBranchRate", "deltaStatements",
   "deltaCoveredStatements", "deltaConditionals", "deltaCoveredConditionals"}

\* C20: every scalar delta of compareResults(base, current) is the current
\* value minus the base value; compareResults(current, base) has every
\* delta negated, filesAdded and filesRemoved exchanged, and filesChanged
\* over the same paths with every per-file delta negated.
C20_DeltasNegatedWhenExchanged ==
  covExchanged # Null
    => /\ SameValue(covComparison.deltaLineRate,
                    Minus(covCurrent.lineRate, covBase.lineRate))
       /\ SameValue(covComparison.deltaBranchRate,
                    Minus(covCurrent.branchRate, covBase.branchRate))
       /\ SameValue(covComparison.deltaTotalStatements,
                    Minus(covCurrent.totalStatements,
                          covBase.totalStatements))
       /\ SameValue(covComparison.deltaCoveredStatements,
                    Minus(covCurrent.coveredStatements,
                          covBase.coveredStatements))
       /\ SameValue(covComparison.deltaTotalConditionals,
                    Minus(covCurrent.totalConditionals,
                          covBase.totalConditionals))
       /\ SameValue(covComparison.deltaCoveredConditionals,
                    Minus(covCurrent.coveredConditionals,
                          covBase.coveredConditionals))
       /\ SameValue(covComparison.deltaTotalMethods,
                    Minus(covCurrent.totalMethods, covBase.totalMethods))
       /\ SameValue(covComparison.deltaCoveredMethods,
                    Minus(covCurrent.coveredMethods, covBase.coveredMethods))
       /\ covComparison.deltaFiles
            = Len(covCurrent.files) - Len(covBase.files)
       /\ \A d \in C19_Deltas :
            SameValue(covExchanged[d], Minus(0, covComparison[d]))
       /\ SameFiles(covExchanged.filesAdded, covComparison.filesRemoved)
       /\ SameFiles(covExchanged.filesRemoved, covComparison.filesAdded)
       /\ C18_Paths(covExchanged.filesChanged)
            = C18_Paths(covComparison.filesChanged)
       /\ \A i \in DOMAIN covComparison.filesChanged :
            \A j \in DOMAIN covExchanged.filesChanged :
              covComparison.filesChanged[i].path
                  = covExchanged.filesChanged[j].path
                => \A d \in C20_FileDeltas :
                     SameValue(covExchanged.filesChanged[j][d],
                               Minus(0, covComparison.filesChanged[i][d]))

\* a comparison with a lower line rate in current, a file added, a file
\* removed and a file whose line rate fell, and its exchange
C20_Witness ==
  /\ covExchanged # Null
  /\ Negative(covComparison.deltaLineRate)
  /\ Positive(covExchanged.deltaLineRate)
  /\ covComparison.filesAdded # <<>> /\ covComparison.filesRemoved # <<>>
  /\ \E i \in DOMAIN covComparison.filesChanged :
       Negative(covComparison.filesChanged[i].deltaLineRate)

\* C21: improvement is true exactly when the line rate rose, or stayed the
\* same while the branch rate rose; a fall of the line rate is never an
\* improvement and a rise of the line rate always is, whatever the branch
\* rate did.
C21_ImprovementLineRateFirst ==
  covComparison # Null
    => LET dLine == Minus(covCurrent.lineRate, covBase.lineRate)
           dBranch == Minus(covCurrent.branchRate, covBase.branchRate)
       IN  /\ covComparison.improvement \in BOOLEAN
           /\ covComparison.improvement
                <=> (Positive(dLine) \/ (IsZero(dLine) /\ Positive(dBranch)))
           /\ Negative(dLine) => ~covComparison.improvement
           /\ Positive(dLine) => covComparison.improvement

\* the line rate rose from 25.00 to 66.67 while the branch rate fell from
\* 50.00 to 33.33: an improvement
C21_Witness ==
  /\ covComparison # Null
  /\ SameValue(covBase.lineRate, 2500) /\ SameValue(covCurrent.lineRate, 6667)
  /\ SameValue(covBase.branchRate, 5000)
  /\ SameValue(covCurrent.branchRate, 3333)
  /\ covComparison.improvement = TRUE

\* rate, in hundredths of a percent, is covered / total * 100 rounded to
\* two decimals when total > 0, and 0 otherwise; covered may be negative,
\* and the quotient of a covered count that is no number is no number
C22_RateFromCounts(rate, covered, total) ==
  IF ~Positive(total) THEN IsZero(rate)
  ELSE IF IsNaN(covered) THEN IsNaN(rate)
  ELSE /\ ~IsNaN(rate)
       /\ 20000 * covered - 2 * total * rate <= total
       /\ 2 * total * rate - 20000 * covered <= total

\* both rates of a metrics record or a FileCoverage follow from its counts
C22_RatesFromCounts(m) ==
  /\ C22_RateFromCounts(m.lineRate, m.coveredStatements, m.statements)
  /\ C22_RateFromCounts(m.branchRate, m.coveredConditionals, m.conditionals)

\* C22: in every document the parser returns, the rates of the metrics
\* record and of every FileCoverage are the rounded quotients of its own
\* counts, 0 for a total that is not positive, whatever the source
\* document states.
C22_ParsedRatesRecomputed ==
  \A i \in DOMAIN xmlResults :
    ~IsParseError(xmlResults[i])
      => /\ C22_RatesFromCounts(xmlResults[i].metrics)
         /\ \A k \in DOMAIN xmlResults[i].files :
              C22_RatesFromCounts(xmlResults[i].files[k])

\* a document stating a line rate of 99 for 2 of 3 statements is parsed to
\* 66.67, for the project and for its file
C22_Witness ==
  \E i \in DOMAIN xmlResults :
    /\ ~IsParseError(xmlResults[i])
    /\ "linerate" \in DOMAIN xmlDocs[i].coverage.project.metrics
    /\ xmlResults[i].metrics.statements = 3
    /\ xmlResults[i].metrics.coveredStatements = 2
    /\ xmlResults[i].metrics.lineRate = 6667
    /\ xmlResults[i].files[1].lineRate = 6667
    /\ xmlResults[i].files[1].branchRate = 3333

\* both rates lie between 0 and 100
C23_InRange(m) ==
  /\ ~IsNaN(m.lineRate) /\ 0 <= m.lineRate /\ m.lineRate <= 10000
  /\ ~IsNaN(m.branchRate) /\ 0 <= m.branchRate /\ m.branchRate <= 10000

\* C23: the rates of every parsed FileCoverage and of every aggregated
\* summary lie between 0 and 100, whatever the counts of the document.
C23_RatesBetween0And100 ==
  /\ \A i \in DOMAIN xmlResults :
       ~IsParseError(xmlResults[i])
         => \A k \in DOMAIN xmlResults[i].files :
              C23_InRange(xmlResults[i].files[k])
  /\ xmlSummary # Null => C23_InRange(xmlSummary)

\* C24: parseXML fails and returns no document when the coverage element or
\* its project element is absent, and returns a document with one
\* FileCoverage per file element, each with one entry per line element,
\* when both are present.
C24_FailsOnlyWithoutCoverageOrProject ==
  \A i \in DOMAIN xmlResults :
    IF "coverage" \notin DOMAIN xmlDocs[i]
       \/ "project" \notin DOMAIN xmlDocs[i].coverage
    THEN IsParseError(xmlResults[i])
    ELSE LET fileElements == Children(xmlDocs[i].coverage.project, "file")
         IN  /\ ~IsParseError(xmlResults[i])
             /\ Len(xmlResults[i].files) = Len(fileElements)
             /\ \A k \in DOMAIN fileElements :
                  Len(xmlResults[i].files[k].lines)
                    = Len(Children(fileElements[k], "line"))

\* the ids of the first 20 runs of the time-filtered listing of effect k
C25_FirstFilteredIds(k) ==
  LET filteredRuns == FilterByTime(hookRuns[k])
  IN  { filteredRuns[i].id :
          i \in 1..Min(Len(filteredRuns), RunsToProcessLimit) }

\* C25: in one fetch getRunArtifacts is called for at most 20 runs, each of
\* them among the first 20 runs of the time-filtered listing, and for no
\* run id twice.
C25_AtMost20RunsEachOnce ==
  \A k \in Fetches :
    /\ Len(artifactRequests[k]) <= RunsToProcessLimit
    /\ \A i \in DOMAIN artifactRequests[k] :
         artifactRequests[k][i] \in C25_FirstFilteredIds(k)
    /\ \A i, j \in DOMAIN artifactRequests[k] :
         artifactRequests[k][i] = artifactRequests[k][j] => i = j

\* a fetch over a listing of 21 runs in range has ended after 20 requests
C25_Witness ==
  /\ Len(FilterByTime(hookRuns[1])) > RunsToProcessLimit
  /\ fetchPc[1] = "done"
  /\ Len(artifactRequests[1]) = RunsToProcessLimit

\* a step of the fetch that effect k started: one of its awaits settles
C26_FetchStep(k) ==
  \/ ResumeRuns(k)
  \/ ResumeArtifacts(k)
  \/ ResumeTestDownload(k)
  \/ ResumeTestParse(k)
  \/ ResumeCoverageDownload(k)
  \/ ResumeCoverageParse(k)

\* no step of the fetch of a cleaned-up effect sets data, error or loading
C26_CancelledFetchSetsNothing ==
  \A k \in Fetches :
    (cancelled[k] /\ C26_FetchStep(k)) => UNCHANGED <<data, loading, error>>

\* data, error and loading are set only when an effect starts and by the
\* fetch of the latest effect while that effect is not cleaned up
C26_OnlyLatestEffectSets ==
  (<<data, loading, error>>' # <<data, loading, error>>)
    => \/ ChangeDeps
       \/ ~cancelled[hookEffects] /\ C26_FetchStep(hookEffects)

\* the state belongs to the latest effect: while its fetch is in flight the
\* hook is loading without error; if it returned early, for want of an
\* owner, repo or branch, the hook is not loading; and once its fetch has
\* ended without a cleanup the hook shows the outcome of that fetch
C26_StateOfLatestEffect ==
  LET k == hookEffects
  IN  /\ fetchPc[k] \notin {"none", "done"} => (loading = TRUE /\ error = Null)
      /\ fetchPc[k] = "none" => (ReturnsEarly(hookDeps[k]) /\ loading = FALSE)
      /\ (fetchPc[k] = "done" /\ ~cancelled[k]) =>
           /\ loading = FALSE
           /\ \/ error = Null /\ data = FinalDataPoints(dataPoints[k])
              \/ error # Null /\ data = <<>>

\* C26: after an effect of useArtifacts has been cleaned up, its in-flight
\* fetch never sets data, error or loading again, so under every
\* interleaving of the awaits of an old and a new fetch the state is the
\* one the latest effect and its fetch set.
C26_NoUpdateAfterCleanup ==
  /\ [][C26_CancelledFetchSetsNothing]_vars
  /\ [][C26_OnlyLatestEffectSets]_vars
  /\ []C26_StateOfLatestEffect

\* the old fetch collected a point and ended after the new fetch had
\* published its own, different result
C26_Witness ==
  /\ finished = <<2, 1>>
  /\ cancelled[1] /\ ~cancelled[2]
  /\ dataPoints[1] # <<>>
  /\ FinalDataPoints(dataPoints[1]) # FinalDataPoints(dataPoints[2])
  /\ data = FinalDataPoints(dataPoints[2])
  /\ data # <<>>
  /\ loading = FALSE

\* the runs for which the fetch of effect k called getRunArtifacts
C27_ProcessedRuns(k) ==
  { run \in { runsToProcess[k][i] : i \in 1..Len(runsToProcess[k]) } :
      run.id \in processedRunIds[k] }

\* the processed runs that yielded a data point: their artifacts were
\* listed and the test or the coverage artifact was downloaded and parsed
C27_RunsWithData(k) ==
  { run \in C27_ProcessedRuns(k) :
      run.artifacts = "ok" /\ (run.test = "ok" \/ run.coverage = "ok") }

\* every point of data is the point of the most recent of these runs for
\* its commit SHA
C27_MostRecentPerCommit(runs) ==
  \A i \in DOMAIN data :
    \E run \in runs :
      /\ data[i].runId = run.id
      /\ data[i].commitSha = run.head_sha
      /\ data[i].date = run.created_at
      /\ \A other \in runs :
           other.head_sha = run.head_sha => other.created_at <= run.created_at

\* every commit SHA of these runs has its point in data
C27_EveryCommitHasPoint(runs) ==
  \A run \in runs : \E i \in DOMAIN data : data[i].commitSha = run.head_sha

\* at most one point per commit SHA, each with test or coverage data, in
\* ascending order of the run date
C27_DistinctWithDataAscending ==
  /\ \A i, j \in DOMAIN data : data[i].commitSha = data[j].commitSha => i = j
  /\ \A i \in DOMAIN data : HasData(data[i])
  /\ \A i, j \in DOMAIN data : i < j => data[i].date <= data[j].date

\* C27 as stated: the published data holds at most one point per commit
\* SHA, the point of the most recent run for that SHA among the processed
\* runs, every point has test or coverage data, and the points ascend by
\* run date.
C27_PointOfMostRecentProcessedRun ==
  data # <<>> =>
    /\ C27_DistinctWithDataAscending
    /\ \E k \in Fetches :
         fetchPc[k] = "done" /\ C27_MostRecentPerCommit(C27_ProcessedRuns(k))

\* C27 amended: the published data holds at most one point per commit SHA,
\* the point of the most recent run for that SHA among the processed runs
\* that yielded a data point, and every commit SHA of such a run has its
\* point; every point has test or coverage data, and the points ascend by
\* run date.
C27_PointOfMostRecentRunWithData ==
  data # <<>> =>
    /\ C27_DistinctWithDataAscending
    /\ \E k \in Fetches :
         /\ fetchPc[k] = "done"
         /\ C27_MostRecentPerCommit(C27_RunsWithData(k))
         /\ C27_EveryCommitHasPoint(C27_RunsWithData(k))

\* two runs of one commit both yielded a point and the fetch has published
\* the point of the later one only
C27_Witness ==
  /\ hookEffects = 1
  /\ fetchPc[1] = "done"
  /\ Len(data) = 1
  /\ \E r1, r2 \in C27_RunsWithData(1) :
       /\ r1.head_sha = r2.head_sha
       /\ r1.created_at < r2.created_at
       /\ data[1].runId = r2.id

\* C28: run order takes precedence over name priority. The runs are scanned
\* in listing order, and the selected artifact belongs to the earliest
\* listed run that holds an unexpired artifact under any candidate name,
\* whatever names the later runs hold.
C28_RunOrderBeforeNamePriority ==
  /\ Len(artifactListCalls) <= Len(workflowRuns)
  /\ \A i \in 1..Len(artifactListCalls) : artifactListCalls[i] = workflowRuns[i]
  /\ found # NoArtifact =>
       /\ found.run = workflowRuns[Len(artifactListCalls)]
       /\ \A j \in 1..Len(workflowRuns) :
            Matches(workflowRuns[j]) # {} => Len(artifactListCalls) <= j

\* the first listed run holds an unexpired artifact under a lower-priority
\* name only, the second run holds one under the highest-priority name, and
\* the artifact of the first run was selected
C28_Witness ==
  /\ found # NoArtifact
  /\ Len(workflowRuns) = 2
  /\ found.run = workflowRuns[1]
  /\ found.name # PreferenceOrder[1]
  /\ \A a \in Matches(workflowRuns[1]) : a.name # PreferenceOrder[1]
  /\ \E a \in Matches(workflowRuns[2]) : a.name = PreferenceOrder[1]

\* once an artifact is selected, no further run is listed or scanned and
\* no other artifact is selected
C29_NothingTriedAfterMatch ==
  found # NoArtifact =>
    UNCHANGED <<found, runIdx, workflowRuns, runListCalls, artifactListCalls>>

\* the selected artifact is the only one downloaded, and a retrieval whose
\* archive could not be extracted or lacks the results file has returned
\* null, without throwing, after that one download
C29_NullAfterUnusableArchive ==
  /\ found # NoArtifact =>
       /\ downloadCalls \in {<<>>, <<found.id>>}
       /\ Len(runListCalls) = 1
       /\ artifactListCalls = SubSeq(workflowRuns, 1, runIdx)
  /\ (Retrieved /\ failure \in {"nojson", "extract"}) =>
       /\ found # NoArtifact
       /\ downloadCalls = <<found.id>>
       /\ baseResults = Null
       /\ ~thrown

\* C29: the retrieval commits to the first unexpired name match. Once it is
\* found the retrieval ends with it, and if its archive cannot be extracted
\* or does not hold the results JSON file the result is null, no further
\* candidate name, run or listing being tried.
C29_CommitsToFirstMatch ==
  /\ [][C29_NothingTriedAfterMatch]_vars
  /\ []C29_NullAfterUnusableArchive

\* the selected artifact's archive lacked the results file and the
\* retrieval returned null, although the next run holds an unexpired
\* artifact under another candidate name
C29_Witness ==
  /\ Retrieved
  /\ failure = "nojson"
  /\ baseResults = Null
  /\ runIdx = 1
  /\ Len(workflowRuns) = 2
  /\ found.run = workflowRuns[1]
  /\ \E a \in Matches(workflowRuns[2]) : a.name # found.name

\* C30: upload and download agree on the key. When the branch uploaded for
\* is the branch retrieved for, with the same kind, flags, name and job id,
\* the name the upload stores under is the first candidate name of the
\* retrieval, so a scanned run that holds an unexpired artifact under the
\* upload's name has that artifact selected.
C30_UploadKeyIsFirstCandidate ==
  currentBranch = baseBranch =>
    /\ \A i \in 1..Len(uploadCalls) : uploadCalls[i].name = UploadArtifactName
    /\ artifactNamesToTry # <<>> => artifactNamesToTry[1] = UploadArtifactName
    /\ \A a \in platformArtifacts :
         (found # NoArtifact /\ a.run = found.run /\ ~a.expired
            /\ a.name = UploadArtifactName) => found = a

\* a run on the base branch uploaded its summary and then retrieved, under
\* the same name, the artifact of an earlier run that also holds a
\* legacy-named one
C30_Witness ==
  /\ currentBranch = baseBranch
  /\ uploadCalls # <<>>
  /\ found # NoArtifact
  /\ found.name = uploadCalls[1].name
  /\ found.name = artifactNamesToTry[1]
  /\ \E a \in Matches(found.run) : a.name # found.name

====
